---------------------------- MODULE Spec2Model ----------------------------
(***************************************************************************)
(* A model of glossify (src/index.js): the annotation parser of class       *)
(* Glossify and the route table, matcher and request handler of class      *)
(* GlossifyServer. Text is a sequence of one-character strings; offsets    *)
(* are the 0-based offsets of the JavaScript code.                         *)
(***************************************************************************)
EXTENDS Integers, Sequences, FiniteSets, TLC

\* Longest source text enumerated character by character.
MaxLen == 5

\* The characters the enumerated sources are made of.
Chars == {"@", "a", " ", "{", "}"}

LowerCase ==
  <<"a", "b", "c", "d", "e", "f", "g", "h", "i", "j", "k", "l", "m", "n",
    "o", "p", "q", "r", "s", "t", "u", "v", "w", "x", "y", "z">>

UpperCase ==
  <<"A", "B", "C", "D", "E", "F", "G", "H", "I", "J", "K", "L", "M", "N",
    "O", "P", "Q", "R", "S", "T", "U", "V", "W", "X", "Y", "Z">>

Digits == <<"0", "1", "2", "3", "4", "5", "6", "7", "8", "9">>

\* Characters matched by \w.
WordChars ==
  {LowerCase[k] : k \in 1..Len(LowerCase)}
    \cup {UpperCase[k] : k \in 1..Len(UpperCase)}
    \cup {Digits[k] : k \in 1..Len(Digits)}
    \cup {"_"}

\* Characters matched by \s, which are also the ones String.trim removes.
SpaceChars == {" "}

IsWord(c) == c \in WordChars

IsSpace(c) == c \in SpaceChars

Min(S) == CHOOSE x \in S : \A y \in S : x <= y

Max(S) == CHOOSE x \in S : \A y \in S : x >= y

\* source[i]
At(s, i) == s[i + 1]

\* String.prototype.substring(a, b): both offsets are clamped to
\* 0..length and swapped when a > b.
substring(s, a, b) ==
  LET Clamp(x) == IF x < 0 THEN 0 ELSE IF x > Len(s) THEN Len(s) ELSE x
      lo == IF Clamp(a) <= Clamp(b) THEN Clamp(a) ELSE Clamp(b)
      hi == IF Clamp(a) <= Clamp(b) THEN Clamp(b) ELSE Clamp(a)
  IN  SubSeq(s, lo + 1, hi)

\* String.prototype.trim
trim(s) ==
  LET keep == {i \in 1..Len(s) : ~IsSpace(s[i])}
  IN  IF keep = {} THEN <<>> ELSE SubSeq(s, Min(keep), Max(keep))

-----------------------------------------------------------------------------
(* The head pattern /@(\w+)\s*([^{]*?)\s*\{/g *)

NoMatch == [found |-> FALSE, index |-> -1, length |-> 0, g1 |-> <<>>, g2 |-> <<>>]

\* End of the greedy run of word characters that starts at offset i.
RECURSIVE WordRunEnd(_, _)
WordRunEnd(s, i) ==
  IF i < Len(s) /\ IsWord(At(s, i)) THEN WordRunEnd(s, i + 1) ELSE i

\* End of the greedy run \s* that starts at offset i.
RECURSIVE SpaceRunEnd(_, _)
SpaceRunEnd(s, i) ==
  IF i < Len(s) /\ IsSpace(At(s, i)) THEN SpaceRunEnd(s, i + 1) ELSE i

\* Offset of the first "{" at or after offset i, Len(s) if there is none.
RECURSIVE FirstOpen(_, _)
FirstOpen(s, i) ==
  IF i < Len(s) /\ At(s, i) # "{" THEN FirstOpen(s, i + 1) ELSE i

\* Start of the white space that ends at offset q.
RECURSIVE SpaceRunStart(_, _, _)
SpaceRunStart(s, lo, q) ==
  IF q > lo /\ IsSpace(At(s, q - 1)) THEN SpaceRunStart(s, lo, q - 1) ELSE q

\* The attempt of the pattern at offset p: "@", a greedy word run, greedy
\* white space, the shortest run without "{" after which only white space
\* separates from a "{", and that "{".
MatchAt(s, p) ==
  IF ~(p < Len(s) /\ At(s, p) = "@") THEN NoMatch
  ELSE LET nameEnd == WordRunEnd(s, p + 1)
       IN  IF nameEnd = p + 1 THEN NoMatch
           ELSE LET wsEnd == SpaceRunEnd(s, nameEnd)
                    q     == FirstOpen(s, wsEnd)
                IN  IF q = Len(s) THEN NoMatch
                    ELSE LET k == SpaceRunStart(s, wsEnd, q)
                         IN  [found  |-> TRUE,
                              index  |-> p,
                              length |-> q + 1 - p,
                              g1     |-> substring(s, p + 1, nameEnd),
                              g2     |-> substring(s, wsEnd, k)]

\* regex.exec(source) with regex.lastIndex = lastIndex: the leftmost match
\* that starts at or after lastIndex.
RECURSIVE RegexExec(_, _)
RegexExec(s, lastIndex) ==
  IF lastIndex >= Len(s) THEN NoMatch
  ELSE LET match == MatchAt(s, lastIndex)
       IN  IF match.found THEN match ELSE RegexExec(s, lastIndex + 1)

-----------------------------------------------------------------------------
(* _extractBody *)

\* The null that _extractBody returns for unbalanced braces.
NoBody == [ok |-> FALSE, content |-> <<>>, endIndex |-> -1]

\* One iteration of the while loop of _extractBody on char: the depth and
\* the content after it.
StepDepth(char, depth) ==
  IF char = "{" THEN depth + 1 ELSE IF char = "}" THEN depth - 1 ELSE depth

StepContent(char, depth, content) ==
  IF char = "}" /\ depth - 1 <= 0 THEN content ELSE Append(content, char)

\* The while loop of _extractBody, from the index, depth and content of
\* st on.
RECURSIVE ExtractFrom(_, _)
ExtractFrom(s, st) ==
  IF st.index < Len(s) /\ st.depth > 0
  THEN ExtractFrom(s, [index   |-> st.index + 1,
                       depth   |-> StepDepth(At(s, st.index), st.depth),
                       content |-> StepContent(At(s, st.index), st.depth,
                                               st.content)])
  ELSE st

ExtractLoop(s, index, depth, content) ==
  ExtractFrom(s, [index |-> index, depth |-> depth, content |-> content])

RECURSIVE ExtractLoop_dropClose(_, _, _, _)
ExtractLoop_dropClose(s, index, depth, content) ==
  IF index < Len(s) /\ depth > 0
  THEN LET char == At(s, index)
       IN  IF char = "{"
           THEN ExtractLoop_dropClose(s, index + 1, depth + 1, Append(content, char))
           ELSE IF char = "}"
           THEN ExtractLoop_dropClose(s, index + 1, depth - 1, content)
           ELSE ExtractLoop_dropClose(s, index + 1, depth, Append(content, char))
  ELSE [index |-> index, depth |-> depth, content |-> content]

ExtractBody_dropClose(s, startIndex) ==
  LET r == ExtractLoop_dropClose(s, startIndex, 1, <<>>)
  IN  IF r.depth # 0 THEN NoBody
      ELSE [ok |-> TRUE, content |-> trim(r.content), endIndex |-> r.index - 1]

ExtractBody_firstClose(s, startIndex) ==
  LET closes == {j \in startIndex..(Len(s) - 1) : At(s, j) = "}"}
  IN  IF closes = {} THEN NoBody
      ELSE [ok |-> TRUE,
            content |-> trim(substring(s, startIndex, Min(closes))),
            endIndex |-> Min(closes)]

ExtractBody_noBalanceCheck(s, startIndex) ==
  LET r == ExtractLoop(s, startIndex, 1, <<>>)
  IN  [ok |-> TRUE, content |-> trim(r.content), endIndex |-> r.index - 1]

extractBody(s, startIndex) ==
  LET r == ExtractLoop(s, startIndex, 1, <<>>)
  IN  IF r.depth # 0 THEN NoBody
      ELSE [ok |-> TRUE, content |-> trim(r.content), endIndex |-> r.index - 1]

-----------------------------------------------------------------------------
(* parse *)

\* The record pushed for a head whose body was extracted.
Annotation(s, match, body) ==
  [name  |-> match.g1,
   value |-> trim(match.g2),
   body  |-> body.content,
   start |-> match.index,
   end   |-> body.endIndex + 1,
   raw   |-> substring(s, match.index, body.endIndex + 1)]

ParseBody_endAtBrace(s, match, annotations) ==
  LET body == extractBody(s, match.index + match.length)
  IN  IF body.ok
      THEN Append(annotations,
                  [Annotation(s, match, body) EXCEPT
                     !.end = body.endIndex,
                     !.raw = substring(s, match.index, body.endIndex)])
      ELSE annotations

ParseBody_prepend(s, match, annotations) ==
  LET body == extractBody(s, match.index + match.length)
  IN  IF body.ok THEN <<Annotation(s, match, body)>> \o annotations
      ELSE annotations

ParseBody_resetOnNull(s, match, annotations) ==
  LET body == extractBody(s, match.index + match.length)
  IN  IF body.ok THEN Append(annotations, Annotation(s, match, body))
      ELSE <<>>

\* The body of the while loop of parse: the annotations after one head.
ParseBody(s, match, annotations) ==
  LET body == extractBody(s, match.index + match.length)
  IN  IF body.ok THEN Append(annotations, Annotation(s, match, body))
      ELSE annotations

\* regex.lastIndex after a successful exec: the end of the match.
NextIndex(match) == match.index + match.length

\* The while loop of parse, from a scan position to the return value.
RECURSIVE ParseLoop(_, _, _)
ParseLoop(s, lastIndex, annotations) ==
  LET match == RegexExec(s, lastIndex)
  IN  IF ~match.found THEN annotations
      ELSE ParseLoop(s, NextIndex(match), ParseBody(s, match, annotations))

\* Glossify.parse(source), as one call.
parse(s) == ParseLoop(s, 0, <<>>)

\* Glossify.parseNested(body)
parseNested(body) == parse(body)

\* Glossify.find(source, annotationType)
find(s, annotationType) ==
  SelectSeq(parse(s), LAMBDA a : a.name = annotationType)

\* Glossify.has(source, annotationType)
has(s, annotationType) == Len(find(s, annotationType)) > 0

-----------------------------------------------------------------------------
(* The handler registry and execute *)

\* new Map()
EmptyMap == [k \in {} |-> "undefined"]

\* Map.prototype.get
MapGet(m, k) == IF k \in DOMAIN m THEN m[k] ELSE "undefined"

\* Map.prototype.set
MapSet(m, k, v) == [x \in DOMAIN m \cup {k} |-> IF x = k THEN v ELSE m[x]]

register_keepFirst(handlers, annotationType, handler) ==
  IF annotationType \in DOMAIN handlers THEN handlers
  ELSE MapSet(handlers, annotationType, handler)

\* Glossify.register: the registry after the call.
register(handlers, annotationType, handler) ==
  MapSet(handlers, annotationType, handler)

\* The callbacks of the callers: h1 returns an object made of its
\* arguments, h2 the string value + ":" + body.
HandlerIds == {"h1", "h2"}

\* The callbacks given to transform as well: h3 returns the empty string,
\* h4 the string "##" + value + "##" + body + "#".
TransformHandlerIds == HandlerIds \cup {"h3", "h4"}

Callback(h, value, body, context) ==
  IF h = "h1"
  THEN [type |-> "object", by |-> h, value |-> value, body |-> body,
        context |-> context, text |-> <<>>]
  ELSE [type |-> "string", by |-> h, value |-> value, body |-> body,
        context |-> context,
        text |-> CASE h = "h3" -> <<>>
                   [] h = "h4" -> <<"#", "#">> \o value \o <<"#", "#">>
                                    \o body \o <<"#">>
                   [] OTHER    -> value \o <<":">> \o body]

\* The for loop of execute from record i on; calls lists the callback
\* invocations made, in order.
RECURSIVE ExecuteLoop(_, _, _, _, _)
ExecuteLoop(handlers, anns, i, context, acc) ==
  IF i > Len(anns) THEN acc
  ELSE LET annotation == anns[i]
           handler    == MapGet(handlers, annotation.name)
       IN  IF handler # "undefined"
           THEN ExecuteLoop(handlers, anns, i + 1, context,
                  [results |->
                     Append(acc.results,
                            [annotation |-> annotation.name,
                             value      |-> annotation.value,
                             result     |-> Callback(handler, annotation.value,
                                                     annotation.body, context)]),
                   calls |->
                     Append(acc.calls,
                            [name |-> annotation.name, handler |-> handler,
                             value |-> annotation.value,
                             body |-> annotation.body, context |-> context])])
           ELSE ExecuteLoop(handlers, anns, i + 1, context, acc)

RECURSIVE ExecuteLoop_noSkip(_, _, _, _, _)
ExecuteLoop_noSkip(handlers, anns, i, context, acc) ==
  IF i > Len(anns) THEN acc
  ELSE LET annotation == anns[i]
           handler    == MapGet(handlers, annotation.name)
       IN  ExecuteLoop_noSkip(handlers, anns, i + 1, context,
             [results |->
                Append(acc.results,
                       [annotation |-> annotation.name,
                        value      |-> annotation.value,
                        result     |-> Callback(handler, annotation.value,
                                                annotation.body, context)]),
              calls |->
                IF handler # "undefined"
                THEN Append(acc.calls,
                            [name |-> annotation.name, handler |-> handler,
                             value |-> annotation.value,
                             body |-> annotation.body, context |-> context])
                ELSE acc.calls])

execute_noSkip(handlers, s, context) ==
  ExecuteLoop_noSkip(handlers, parse(s), 1, context,
                     [results |-> <<>>, calls |-> <<>>])

\* Glossify.execute(source, context): the returned results and the
\* callback invocations made.
execute(handlers, s, context) ==
  ExecuteLoop(handlers, parse(s), 1, context, [results |-> <<>>, calls |-> <<>>])

\* One splice of transform: the indices it cuts the current text at, the
\* lengths of the text before and after it, of the replacement and of the
\* record's span, and the offset after it.
Splice(acc, annotation, replacement, result) ==
  [start  |-> annotation.start + acc.offset,
   end    |-> annotation.end + acc.offset,
   before |-> Len(acc.result),
   after  |-> Len(result),
   repl   |-> Len(replacement.text),
   span   |-> annotation.end - annotation.start,
   offset |-> acc.offset + Len(replacement.text)
                - (annotation.end - annotation.start)]

\* The for loop of transform from record i on: the text so far, the
\* running offset, the callback invocations and the splices made.
RECURSIVE TransformLoop(_, _, _, _, _)
TransformLoop(handlers, anns, i, context, acc) ==
  IF i > Len(anns) THEN acc
  ELSE LET annotation == anns[i]
           handler    == MapGet(handlers, annotation.name)
       IN  IF handler = "undefined"
           THEN TransformLoop(handlers, anns, i + 1, context, acc)
           ELSE LET replacement == Callback(handler, annotation.value,
                                            annotation.body, context)
                    called == Append(acc.calls,
                                [name |-> annotation.name, handler |-> handler,
                                 value |-> annotation.value,
                                 body |-> annotation.body, context |-> context])
                    start == annotation.start + acc.offset
                    end   == annotation.end + acc.offset
                    result == substring(acc.result, 0, start)
                                \o replacement.text
                                \o substring(acc.result, end, Len(acc.result))
                IN  IF replacement.type = "string"
                    THEN TransformLoop(handlers, anns, i + 1, context,
                           [result |-> result,
                            offset |-> acc.offset + Len(replacement.text)
                                         - (annotation.end - annotation.start),
                            calls  |-> called,
                            splices |-> Append(acc.splices,
                                          Splice(acc, annotation, replacement,
                                                 result))])
                    ELSE TransformLoop(handlers, anns, i + 1, context,
                           [acc EXCEPT !.calls = called])

\* The loop with every return value spliced in, a non-string as the text
\* String(value) gives.
RECURSIVE TransformLoop_spliceAll(_, _, _, _, _)
TransformLoop_spliceAll(handlers, anns, i, context, acc) ==
  IF i > Len(anns) THEN acc
  ELSE LET annotation == anns[i]
           handler    == MapGet(handlers, annotation.name)
       IN  IF handler = "undefined"
           THEN TransformLoop_spliceAll(handlers, anns, i + 1, context, acc)
           ELSE LET r == Callback(handler, annotation.value,
                                  annotation.body, context)
                    replacement == IF r.type = "string" THEN r
                                   ELSE [r EXCEPT !.text = <<"[", "o", "]">>]
                    result == substring(acc.result, 0,
                                        annotation.start + acc.offset)
                                \o replacement.text
                                \o substring(acc.result,
                                             annotation.end + acc.offset,
                                             Len(acc.result))
                IN  TransformLoop_spliceAll(handlers, anns, i + 1, context,
                      [result |-> result,
                       offset |-> acc.offset + Len(replacement.text)
                                    - (annotation.end - annotation.start),
                       calls  |-> Append(acc.calls,
                                    [name |-> annotation.name,
                                     handler |-> handler,
                                     value |-> annotation.value,
                                     body |-> annotation.body,
                                     context |-> context]),
                       splices |-> Append(acc.splices,
                                     Splice(acc, annotation, replacement,
                                            result))])

transform_spliceAll(handlers, s, context) ==
  TransformLoop_spliceAll(handlers, parse(s), 1, context,
    [result |-> s, offset |-> 0, calls |-> <<>>, splices |-> <<>>])

\* The loop with the offset left at 0.
RECURSIVE TransformLoop_noOffset(_, _, _, _, _)
TransformLoop_noOffset(handlers, anns, i, context, acc) ==
  IF i > Len(anns) THEN acc
  ELSE LET annotation == anns[i]
           handler    == MapGet(handlers, annotation.name)
       IN  IF handler = "undefined"
           THEN TransformLoop_noOffset(handlers, anns, i + 1, context, acc)
           ELSE LET replacement == Callback(handler, annotation.value,
                                            annotation.body, context)
                    called == Append(acc.calls,
                                [name |-> annotation.name, handler |-> handler,
                                 value |-> annotation.value,
                                 body |-> annotation.body, context |-> context])
                    result == substring(acc.result, 0, annotation.start)
                                \o replacement.text
                                \o substring(acc.result, annotation.end,
                                             Len(acc.result))
                IN  IF replacement.type = "string"
                    THEN TransformLoop_noOffset(handlers, anns, i + 1, context,
                           [result |-> result,
                            offset |-> 0,
                            calls  |-> called,
                            splices |-> Append(acc.splices,
                                          Splice(acc, annotation, replacement,
                                                 result))])
                    ELSE TransformLoop_noOffset(handlers, anns, i + 1, context,
                           [acc EXCEPT !.calls = called])

transform_noOffset(handlers, s, context) ==
  TransformLoop_noOffset(handlers, parse(s), 1, context,
    [result |-> s, offset |-> 0, calls |-> <<>>, splices |-> <<>>])

\* transform with the records parsed again from the text after the splices.
transform_onSpliced(handlers, s, context) ==
  LET first == TransformLoop(handlers, parse(s), 1, context,
                 [result |-> s, offset |-> 0, calls |-> <<>>, splices |-> <<>>])
  IN  TransformLoop(handlers, parse(first.result), 1, context,
        [result |-> first.result, offset |-> 0, calls |-> <<>>,
         splices |-> <<>>])

\* Glossify.transform(source, context): the returned text, the final
\* offset, the callback invocations and the splices made.
transform(handlers, s, context) ==
  TransformLoop(handlers, parse(s), 1, context,
                [result |-> s, offset |-> 0, calls |-> <<>>, splices |-> <<>>])

-----------------------------------------------------------------------------
(* Source texts *)

\* Every text of at most n characters.
Strings(n) == UNION {[1..k -> Chars] : k \in 0..n}

\* The text wrapped as the body of an enclosing annotation.
Wrap(s) == <<"@", "a", "{">> \o s \o <<"}">>

\* '@a 1{x} @b 2{y}'
SrcOrder ==
  <<"@", "a", " ", "1", "{", "x", "}", " ", "@", "b", " ", "2", "{", "y", "}">>

\* '@foo { bar'
SrcUnclosed == <<"@", "f", "o", "o", " ", "{", " ", "b", "a", "r">>

\* '@a @b{}'
SrcBareToken == <<"@", "a", " ", "@", "b", "{", "}">>

\* '@c{}@a{ @b{}'
SrcAfterDiscard == <<"@", "c", "{", "}", "@", "a", "{", " ", "@", "b", "{", "}">>

\* '@a{ @b{ x } } @c y{ {z} }'
SrcNested ==
  <<"@", "a", "{", " ", "@", "b", "{", " ", "x", " ", "}", " ", "}", " ",
    "@", "c", " ", "y", "{", " ", "{", "z", "}", " ", "}">>

Examples == {SrcOrder, SrcUnclosed, SrcBareToken, SrcAfterDiscard, SrcNested}

\* The sources of the parser specification.
Sources == Strings(MaxLen) \cup {Wrap(s) : s \in Strings(MaxLen)} \cup Examples

-----------------------------------------------------------------------------
(* State *)

VARIABLES
  source,       \* the text given to the running call
  pc,           \* position of the call: "parse", "done", "extract", "ready"
  lastIndex,    \* regex.lastIndex of the running parse
  annotations,  \* the annotations array of the running parse
  startIndex,   \* argument of the last _extractBody call, -1 before any
  body,         \* result of the last _extractBody call
  nestedOf,     \* index of the record last given to parseNested, 0 if none
  nested        \* result of the last parseNested call

parseVars == <<source, pc, lastIndex, annotations, startIndex, body,
               nestedOf, nested>>

VARIABLES
  handlers,     \* this.handlers: annotation name -> callback
  regLog,       \* the register calls made so far, <<name, callback>> each
  lastOp,       \* the last call: "register", "execute", "transform"
  returned,     \* what the last call returned
  calls,        \* callback invocations made by the last call, in order
  context,      \* context argument of the last call
  splices       \* the splices the last transform made, in order

regVars == <<handlers, regLog, lastOp, returned, calls, context, splices>>

\* A new Glossify on which nothing was called.
InitRegistry ==
  /\ handlers = EmptyMap
  /\ regLog = <<>>
  /\ lastOp = "none"
  /\ returned = <<>>
  /\ calls = <<>>
  /\ context = "none"
  /\ splices = <<>>

VARIABLES
  handlersB,    \* this.handlers of a second Glossify instance
  regLogB,      \* the register calls made on the second instance
  lastInst,     \* receiver of the last call: "A", "B", or "module" for the
                \* module-level parse and find
  fresh         \* this.handlers of the instance the last module-level call made

instVars == <<handlersB, regLogB, lastInst, fresh>>

\* A second new Glossify, and no module-level call yet.
InitInst ==
  /\ handlersB = EmptyMap
  /\ regLogB = <<>>
  /\ lastInst = "none"
  /\ fresh = EmptyMap

\* _matchRoute's null.
NoRoute ==
  [found |-> FALSE, index |-> 0,
   route |-> [method |-> <<>>, path |-> <<>>, controller |-> <<>>,
              description |-> <<>>, responses |-> <<>>],
   params |-> EmptyMap]

\* No request was received.
NoRequest == [method |-> <<>>, url |-> <<>>]

\* No response was sent.
NoResponse ==
  [status |-> 0, data |-> [type |-> "none", text |-> <<>>, params |-> EmptyMap],
   by |-> "none"]

VARIABLES
  routes,       \* GlossifyServer this.routes, in load order
  srvHandlers,  \* GlossifyServer this.handlers: 'METHOD:path' -> handler
  request,      \* the last request: its method and URL path
  matched,      \* what _matchRoute returned for it
  response,     \* the status and data sent for it
  loads,        \* the number of load calls made
  declared      \* the routes written in the .gsf file, in source order

serverVars == <<routes, srvHandlers, request, matched, response, loads, declared>>

\* A new GlossifyServer that has received no request.
InitServer ==
  /\ routes = <<>>
  /\ srvHandlers = EmptyMap
  /\ request = NoRequest
  /\ matched = NoRoute
  /\ response = NoResponse
  /\ loads = 0
  /\ declared = <<>>

\* No handler ran for the request.
NoResult ==
  [outcome |-> "none",
   value |-> [hasStatus |-> FALSE, status |-> [nan |-> TRUE, n |-> 0],
              hasData |-> FALSE,
              data |-> [type |-> "none", text |-> <<>>, params |-> EmptyMap]]]

VARIABLES
  phase,    \* where the request handler of start is for the request
  written,  \* the number of responses written (res.writeHead and res.end)
  result    \* what the route's handler did: returned, rejected or thrown

reqVars == <<phase, written, result>>

\* No request is being handled.
InitReq ==
  /\ phase = "idle"
  /\ written = 0
  /\ result = NoResult

VARIABLES
  head,     \* parse: what regex.exec returned last
  index,    \* _extractBody: the offset of the character read next
  depth,    \* _extractBody: the braces open
  content   \* _extractBody: the characters kept so far

loopVars == <<head, index, depth, content>>

\* No loop is running.
InitLoop ==
  /\ head = NoMatch
  /\ index = 0
  /\ depth = 0
  /\ content = <<>>

VARIABLES
  asked     \* find and has: the annotationType argument of the last call

callVars == <<asked>>

\* No find or has call was made.
InitCall == asked = <<>>

extVars == <<instVars, serverVars, reqVars, loopVars, callVars>>

InitExt == InitInst /\ InitServer /\ InitReq /\ InitLoop /\ InitCall

vars == <<parseVars, regVars, extVars>>

-----------------------------------------------------------------------------
(* Glossify.parse, one loop iteration per step *)

InitParse ==
  /\ source \in Sources
  /\ pc = "parse"
  /\ lastIndex = 0
  /\ annotations = <<>>
  /\ startIndex = -1
  /\ body = NoBody
  /\ nestedOf = 0
  /\ nested = <<>>
  /\ InitRegistry
  /\ InitExt

\* One iteration of the while loop: exec finds a head, the body is
\* extracted and the record is pushed when the braces balance.
ParseIter ==
  /\ pc = "parse"
  /\ LET match == RegexExec(source, lastIndex)
     IN  /\ match.found
         /\ startIndex' = match.index + match.length
         /\ body' = extractBody(source, match.index + match.length)
         /\ annotations' = ParseBody(source, match, annotations)
         /\ lastIndex' = NextIndex(match)
  /\ UNCHANGED <<source, pc, nestedOf, nested>>
  /\ UNCHANGED regVars
  /\ UNCHANGED extVars

\* exec returns null: the loop ends and parse returns annotations.
ParseReturn ==
  /\ pc = "parse"
  /\ ~RegexExec(source, lastIndex).found
  /\ pc' = "done"
  /\ UNCHANGED <<source, lastIndex, annotations, startIndex, body,
                 nestedOf, nested>>
  /\ UNCHANGED regVars
  /\ UNCHANGED extVars

\* parseNested on the body of a returned record.
ParseNested(i) ==
  /\ pc = "done"
  /\ i \in 1..Len(annotations)
  /\ nestedOf' = i
  /\ nested' = parseNested(annotations[i].body)
  /\ UNCHANGED <<source, pc, lastIndex, annotations, startIndex, body>>
  /\ UNCHANGED regVars
  /\ UNCHANGED extVars

Init == InitParse

Next ==
  \/ ParseIter
  \/ ParseReturn
  \/ \E i \in 1..Len(annotations) : ParseNested(i)

Spec == Init /\ [][Next]_vars

\* The stepwise loop returns what the call returns.
LoopAgrees == pc = "done" => annotations = parse(source)

-----------------------------------------------------------------------------
(* Glossify.parse and _extractBody, one loop iteration of either per step *)

\* index++
Advance_stuck(i) == i

Advance(i) == i + 1

\* parse(source) is called.
InitSteps ==
  /\ source \in Strings(MaxLen) \cup Examples
  /\ pc = "parse"
  /\ lastIndex = 0
  /\ annotations = <<>>
  /\ startIndex = -1
  /\ body = NoBody
  /\ nestedOf = 0
  /\ nested = <<>>
  /\ InitRegistry
  /\ InitExt

\* regex.exec finds a head and _extractBody is entered at the end of it.
ExecHead ==
  /\ pc = "parse"
  /\ LET m == RegexExec(source, lastIndex)
     IN  /\ m.found
         /\ head' = m
         /\ lastIndex' = NextIndex(m)
         /\ startIndex' = m.index + m.length
         /\ index' = m.index + m.length
  /\ depth' = 1
  /\ content' = <<>>
  /\ pc' = "extract"
  /\ UNCHANGED <<source, annotations, body, nestedOf, nested>>
  /\ UNCHANGED regVars
  /\ UNCHANGED <<instVars, serverVars, reqVars, callVars>>

\* One iteration of the while loop of _extractBody.
ExtractStep ==
  /\ pc = "extract"
  /\ index < Len(source) /\ depth > 0
  /\ depth' = StepDepth(At(source, index), depth)
  /\ content' = StepContent(At(source, index), depth, content)
  /\ index' = Advance(index)
  /\ UNCHANGED head
  /\ UNCHANGED parseVars
  /\ UNCHANGED regVars
  /\ UNCHANGED <<instVars, serverVars, reqVars, callVars>>

\* The while loop of _extractBody ends: it returns null or the body, and
\* parse pushes the record for a body.
ExtractReturn ==
  /\ pc = "extract"
  /\ ~(index < Len(source) /\ depth > 0)
  /\ LET b == IF depth # 0 THEN NoBody
              ELSE [ok |-> TRUE, content |-> trim(content), endIndex |-> index - 1]
     IN  /\ body' = b
         /\ annotations' = IF b.ok THEN Append(annotations, Annotation(source, head, b))
                           ELSE annotations
  /\ pc' = "parse"
  /\ UNCHANGED <<source, lastIndex, startIndex, nestedOf, nested>>
  /\ UNCHANGED regVars
  /\ UNCHANGED extVars

NextSteps ==
  \/ ExecHead
  \/ ExtractStep
  \/ ExtractReturn
  \/ ParseReturn

SpecSteps == InitSteps /\ [][NextSteps]_vars

\* The call runs on one thread that keeps executing while it has a next
\* step.
SpecStepsFair == SpecSteps /\ WF_vars(NextSteps)

-----------------------------------------------------------------------------
(* _extractBody applied to every text, at every offset just past a "{" *)

InitExtract ==
  /\ source \in Strings(MaxLen)
  /\ pc = "extract"
  /\ lastIndex = 0
  /\ annotations = <<>>
  /\ startIndex = -1
  /\ body = NoBody
  /\ nestedOf = 0
  /\ nested = <<>>
  /\ InitRegistry
  /\ InitExt

ExtractCall(i) ==
  /\ pc = "extract"
  /\ i \in 1..Len(source)
  /\ At(source, i - 1) = "{"
  /\ startIndex' = i
  /\ body' = extractBody(source, i)
  /\ UNCHANGED <<source, pc, lastIndex, annotations, nestedOf, nested>>
  /\ UNCHANGED regVars
  /\ UNCHANGED extVars

NextExtract == \E i \in 1..Len(source) : ExtractCall(i)

SpecExtract == InitExtract /\ [][NextExtract]_vars

-----------------------------------------------------------------------------
(* register and execute on one instance *)

\* Most register calls in one behaviour.
MaxRegs == 2

\* Most blocks in one source given to execute.
MaxBlocks == 2

\* '@b x{y}', '@c{x}', ' x ', '@a 1{@b{}}'
Blocks ==
  {<<"@", "b", " ", "x", "{", "y", "}">>,
   <<"@", "c", "{", "x", "}">>,
   <<" ", "x", " ">>,
   <<"@", "a", " ", "1", "{", "@", "b", "{", "}", "}">>}

\* The texts made of at most n blocks.
RECURSIVE Concats(_)
Concats(n) ==
  IF n = 0 THEN {<<>>}
  ELSE Concats(n - 1) \cup {s \o b : s \in Concats(n - 1), b \in Blocks}

\* The names callers register; c is never registered.
RegNames == {<<"a">>, <<"b">>}

Contexts == {"ctx1", "ctx2"}

InitExec ==
  /\ source \in Concats(MaxBlocks)
  /\ pc = "ready"
  /\ lastIndex = 0
  /\ annotations = <<>>
  /\ startIndex = -1
  /\ body = NoBody
  /\ nestedOf = 0
  /\ nested = <<>>
  /\ InitRegistry
  /\ InitExt

Register(n, h) ==
  /\ pc = "ready"
  /\ Len(regLog) < MaxRegs
  /\ handlers' = register(handlers, n, h)
  /\ regLog' = Append(regLog, <<n, h>>)
  /\ lastOp' = "register"
  /\ returned' = "this"
  /\ calls' = <<>>
  /\ context' = "none"
  /\ splices' = <<>>
  /\ UNCHANGED parseVars
  /\ UNCHANGED extVars

Execute(ctx) ==
  /\ pc = "ready"
  /\ LET r == execute(handlers, source, ctx)
     IN  /\ returned' = r.results
         /\ calls' = r.calls
  /\ splices' = <<>>
  /\ context' = ctx
  /\ lastOp' = "execute"
  /\ UNCHANGED <<handlers, regLog>>
  /\ UNCHANGED parseVars
  /\ UNCHANGED extVars

Transform(ctx) ==
  /\ pc = "ready"
  /\ LET r == transform(handlers, source, ctx)
     IN  /\ returned' = r.result
         /\ calls' = r.calls
         /\ splices' = r.splices
  /\ context' = ctx
  /\ lastOp' = "transform"
  /\ UNCHANGED <<handlers, regLog>>
  /\ UNCHANGED parseVars
  /\ UNCHANGED extVars

NextExec ==
  \/ \E n \in RegNames, h \in HandlerIds : Register(n, h)
  \/ \E ctx \in Contexts : Execute(ctx)
  \/ \E ctx \in Contexts : Transform(ctx)

SpecExec == InitExec /\ [][NextExec]_vars

-----------------------------------------------------------------------------
(* transform on a registry of object- and string-returning callbacks *)

\* The register calls that give each name of f its callback, a before b.
LogOf(f) ==
  (IF f[<<"a">>] = "undefined" THEN <<>> ELSE << <<(<<"a">>), f[<<"a">>]>> >>)
  \o (IF f[<<"b">>] = "undefined" THEN <<>> ELSE << <<(<<"b">>), f[<<"b">>]>> >>)

\* The registry after the register calls of log, made in order on a new
\* Glossify.
RECURSIVE RegisterAll(_)
RegisterAll(log) ==
  IF log = <<>> THEN EmptyMap
  ELSE register(RegisterAll(SubSeq(log, 1, Len(log) - 1)),
                log[Len(log)][1], log[Len(log)][2])

InitTransform ==
  /\ source \in Concats(MaxBlocks)
  /\ pc = "ready"
  /\ lastIndex = 0
  /\ annotations = <<>>
  /\ startIndex = -1
  /\ body = NoBody
  /\ nestedOf = 0
  /\ nested = <<>>
  /\ \E f \in [RegNames -> TransformHandlerIds \cup {"undefined"}] :
       /\ regLog = LogOf(f)
       /\ handlers = RegisterAll(LogOf(f))
  /\ lastOp = "none"
  /\ returned = <<>>
  /\ calls = <<>>
  /\ context = "none"
  /\ splices = <<>>
  /\ InitExt

NextTransform == \E ctx \in Contexts : Transform(ctx)

SpecTransform == InitTransform /\ [][NextTransform]_vars

-----------------------------------------------------------------------------
(* Two Glossify instances and the module-level parse and find *)

\* The registries of the two instances.
Registries == [A |-> handlers, B |-> handlersB]

RegisterAt_shared(store, inst, annotationType, handler) ==
  [i \in DOMAIN store |-> register(store[i], annotationType, handler)]

\* inst.register(annotationType, handler): this.handlers is the Map the
\* constructor made for that instance.
RegisterAt(store, inst, annotationType, handler) ==
  [store EXCEPT ![inst] = register(store[inst], annotationType, handler)]

\* The handlers of a new Glossify().
NewHandlers == EmptyMap

InitTwo ==
  /\ source \in Blocks
  /\ pc = "ready"
  /\ lastIndex = 0
  /\ annotations = <<>>
  /\ startIndex = -1
  /\ body = NoBody
  /\ nestedOf = 0
  /\ nested = <<>>
  /\ InitRegistry
  /\ InitExt

RegisterOn(inst, n, h) ==
  /\ pc = "ready"
  /\ Len(regLog) + Len(regLogB) < MaxRegs
  /\ LET store == RegisterAt(Registries, inst, n, h)
     IN  /\ handlers' = store.A
         /\ handlersB' = store.B
  /\ regLog' = IF inst = "A" THEN Append(regLog, <<n, h>>) ELSE regLog
  /\ regLogB' = IF inst = "B" THEN Append(regLogB, <<n, h>>) ELSE regLogB
  /\ lastOp' = "register"
  /\ lastInst' = inst
  /\ returned' = "this"
  /\ calls' = <<>>
  /\ context' = "none"
  /\ splices' = <<>>
  /\ UNCHANGED fresh
  /\ UNCHANGED parseVars
  /\ UNCHANGED <<serverVars, reqVars, loopVars, callVars>>

ExecuteOn(inst, ctx) ==
  /\ pc = "ready"
  /\ LET r == execute(Registries[inst], source, ctx)
     IN  /\ returned' = r.results
         /\ calls' = r.calls
  /\ splices' = <<>>
  /\ context' = ctx
  /\ lastOp' = "execute"
  /\ lastInst' = inst
  /\ UNCHANGED <<handlers, regLog, handlersB, regLogB, fresh>>
  /\ UNCHANGED parseVars
  /\ UNCHANGED <<serverVars, reqVars, loopVars, callVars>>

TransformOn(inst, ctx) ==
  /\ pc = "ready"
  /\ LET r == transform(Registries[inst], source, ctx)
     IN  /\ returned' = r.result
         /\ calls' = r.calls
         /\ splices' = r.splices
  /\ context' = ctx
  /\ lastOp' = "transform"
  /\ lastInst' = inst
  /\ UNCHANGED <<handlers, regLog, handlersB, regLogB, fresh>>
  /\ UNCHANGED parseVars
  /\ UNCHANGED <<serverVars, reqVars, loopVars, callVars>>

\* The module-level parse(source).
ModuleParse ==
  /\ pc = "ready"
  /\ fresh' = NewHandlers
  /\ returned' = parse(source)
  /\ calls' = <<>>
  /\ context' = "none"
  /\ splices' = <<>>
  /\ lastOp' = "parse"
  /\ lastInst' = "module"
  /\ UNCHANGED <<handlers, regLog, handlersB, regLogB>>
  /\ UNCHANGED parseVars
  /\ UNCHANGED <<serverVars, reqVars, loopVars, callVars>>

\* The module-level find(source, annotationType).
ModuleFind(annotationType) ==
  /\ pc = "ready"
  /\ fresh' = NewHandlers
  /\ returned' = find(source, annotationType)
  /\ calls' = <<>>
  /\ context' = "none"
  /\ splices' = <<>>
  /\ lastOp' = "find"
  /\ lastInst' = "module"
  /\ UNCHANGED <<handlers, regLog, handlersB, regLogB>>
  /\ UNCHANGED parseVars
  /\ UNCHANGED <<serverVars, reqVars, loopVars, callVars>>

NextTwo ==
  \/ \E inst \in {"A", "B"}, n \in RegNames, h \in HandlerIds :
       RegisterOn(inst, n, h)
  \/ \E inst \in {"A", "B"}, ctx \in Contexts : ExecuteOn(inst, ctx)
  \/ \E inst \in {"A", "B"}, ctx \in Contexts : TransformOn(inst, ctx)
  \/ ModuleParse
  \/ \E n \in RegNames : ModuleFind(n)

SpecTwo == InitTwo /\ [][NextTwo]_vars

-----------------------------------------------------------------------------
(* GlossifyServer._matchRoute *)

\* The route paths and URL paths of the model are written with '/', ':',
\* '.', letters and digits; of the characters special to RegExp only '.'
\* occurs in them.

\* The first offset from i on that holds '/', or the length of path.
RECURSIVE SegEnd(_, _)
SegEnd(path, i) ==
  IF i >= Len(path) \/ At(path, i) = "/" THEN i ELSE SegEnd(path, i + 1)

\* /:[^/]+/ matches at offset i of path.
ParamAt(path, i) ==
  /\ At(path, i) = ":"
  /\ i + 1 < Len(path)
  /\ At(path, i + 1) # "/"

\* The RegExp source made from route.path from offset i on, one token for
\* each element: every ':' followed by characters other than '/' becomes
\* the group ([^/]+), '/' becomes the escaped '/', and every other
\* character is copied, so that '.' stays the RegExp wildcard.
RECURSIVE RegexFrom(_, _)
RegexFrom(path, i) ==
  IF i >= Len(path) THEN <<>>
  ELSE IF ParamAt(path, i)
       THEN <<[kind |-> "group", c |-> ""]>> \o RegexFrom(path, SegEnd(path, i + 1))
       ELSE IF At(path, i) = "."
            THEN <<[kind |-> "any", c |-> ""]>> \o RegexFrom(path, i + 1)
            ELSE <<[kind |-> "char", c |-> At(path, i)]>> \o RegexFrom(path, i + 1)

RouteRegex_noParams(path) ==
  [k \in 1..Len(path) |->
     IF path[k] = "." THEN [kind |-> "any", c |-> ""]
     ELSE [kind |-> "char", c |-> path[k]]]

\* route.path.replace(/:[^/]+/g, '([^/]+)').replace(/\//g, '\\/')
RouteRegex(path) == RegexFrom(path, 0)

\* route.path.match(/:[^/]+/g).map(p => p.slice(1)) from offset i on.
RECURSIVE ParamNames(_, _)
ParamNames(path, i) ==
  IF i >= Len(path) THEN <<>>
  ELSE IF ParamAt(path, i)
       THEN <<substring(path, i + 1, SegEnd(path, i + 1))>>
              \o ParamNames(path, SegEnd(path, i + 1))
       ELSE ParamNames(path, i + 1)

\* urlPath.match(new RegExp('^' + pattern + '$')) from token k and offset j
\* on: whether it matches and the texts of the groups. A group is always
\* followed by '/' or by the end of the pattern, so the longest run of
\* characters other than '/' is the only one it can take.
RECURSIVE RegexMatch(_, _, _, _, _)
RegexMatch(toks, k, urlPath, j, groups) ==
  IF k > Len(toks)
  THEN [ok |-> j = Len(urlPath), groups |-> groups]
  ELSE CASE toks[k].kind = "char" ->
              IF j < Len(urlPath) /\ At(urlPath, j) = toks[k].c
              THEN RegexMatch(toks, k + 1, urlPath, j + 1, groups)
              ELSE [ok |-> FALSE, groups |-> <<>>]
         [] toks[k].kind = "any" ->
              IF j < Len(urlPath)
              THEN RegexMatch(toks, k + 1, urlPath, j + 1, groups)
              ELSE [ok |-> FALSE, groups |-> <<>>]
         [] OTHER ->
              IF SegEnd(urlPath, j) > j
              THEN RegexMatch(toks, k + 1, urlPath, SegEnd(urlPath, j),
                              Append(groups, substring(urlPath, j, SegEnd(urlPath, j))))
              ELSE [ok |-> FALSE, groups |-> <<>>]

\* paramNames.forEach((name, i) => { params[name] = match[i + 1]; })
RECURSIVE Params(_, _, _)
Params(names, groups, n) ==
  IF n = 0 THEN EmptyMap
  ELSE MapSet(Params(names, groups, n - 1), names[n], groups[n])

\* One iteration's match of urlPath against route.path.
MatchPath(path, urlPath) ==
  LET m == RegexMatch(RouteRegex(path), 1, urlPath, 0, <<>>)
  IN  [ok |-> m.ok,
       params |-> IF m.ok
                  THEN Params(ParamNames(path, 0), m.groups,
                              Len(ParamNames(path, 0)))
                  ELSE EmptyMap]

\* The for loop of _matchRoute from entry i on.
RECURSIVE MatchLoop(_, _, _, _)
MatchLoop(rs, i, method, urlPath) ==
  IF i > Len(rs) THEN NoRoute
  ELSE IF rs[i].method # method THEN MatchLoop(rs, i + 1, method, urlPath)
       ELSE IF MatchPath(rs[i].path, urlPath).ok
            THEN [found |-> TRUE, index |-> i, route |-> rs[i],
                  params |-> MatchPath(rs[i].path, urlPath).params]
            ELSE MatchLoop(rs, i + 1, method, urlPath)

\* The loop run from the last entry to the first.
RECURSIVE MatchLoop_lastWins(_, _, _, _)
MatchLoop_lastWins(rs, i, method, urlPath) ==
  IF i < 1 THEN NoRoute
  ELSE IF rs[i].method # method THEN MatchLoop_lastWins(rs, i - 1, method, urlPath)
       ELSE IF MatchPath(rs[i].path, urlPath).ok
            THEN [found |-> TRUE, index |-> i, route |-> rs[i],
                  params |-> MatchPath(rs[i].path, urlPath).params]
            ELSE MatchLoop_lastWins(rs, i - 1, method, urlPath)

matchRoute_lastWins(rs, method, urlPath) ==
  MatchLoop_lastWins(rs, Len(rs), method, urlPath)

\* GlossifyServer._matchRoute(method, urlPath)
matchRoute(rs, method, urlPath) == MatchLoop(rs, 1, method, urlPath)

\* Most segments in a route path or URL path.
MaxSegs == 2

\* Most entries in a route table with several entries.
MaxRoutes == 2

\* 'a', ':a', ':b', 'a.', 'a:b'
PatternSegs ==
  {<<"a">>, <<":", "a">>, <<":", "b">>, <<"a", ".">>, <<"a", ":", "b">>}

\* 'a', 'b', 'ab', 'a.', ''
UrlSegs == {<<"a">>, <<"b">>, <<"a", "b">>, <<"a", ".">>, <<>>}

\* The paths '/s1/.../sk' of 1 to n segments of S.
RECURSIVE PathsOf(_, _)
PathsOf(S, n) ==
  IF n = 0 THEN {}
  ELSE {<<"/">> \o s : s \in S}
         \cup {p \o <<"/">> \o s : p \in PathsOf(S, n - 1), s \in S}

\* '/users/:id'
UsersId == <<"/", "u", "s", "e", "r", "s", "/", ":", "i", "d">>

\* '/users/42', '/users/42/extra', '/users'
UsersUrls ==
  {<<"/", "u", "s", "e", "r", "s", "/", "4", "2">>,
   <<"/", "u", "s", "e", "r", "s", "/", "4", "2", "/", "e", "x", "t", "r", "a">>,
   <<"/", "u", "s", "e", "r", "s">>}

GET == <<"G", "E", "T">>
POST == <<"P", "O", "S", "T">>
Methods == {GET, POST}

\* The entry load pushes for '@route METHOD path {}' in '@controller C {}'.
RouteEntry(method, path) ==
  [method |-> method, path |-> path, controller |-> <<"C">>,
   description |-> <<>>, responses |-> <<>>]

\* Entries whose patterns match overlapping sets of paths.
RoutePool ==
  {RouteEntry(GET, <<"/", "a">>), RouteEntry(GET, <<"/", ":", "a">>),
   RouteEntry(POST, <<"/", ":", "b">>), RouteEntry(GET, <<"/", ":", "b">>)}

\* The tables of at most n entries of the pool.
RECURSIVE Tables(_)
Tables(n) ==
  IF n = 0 THEN {<<>>}
  ELSE Tables(n - 1) \cup {Append(rs, r) : rs \in Tables(n - 1), r \in RoutePool}

\* No Glossify call is in progress or was made.
InitIdle ==
  /\ source = <<>>
  /\ pc = "ready"
  /\ lastIndex = 0
  /\ annotations = <<>>
  /\ startIndex = -1
  /\ body = NoBody
  /\ nestedOf = 0
  /\ nested = <<>>
  /\ InitRegistry
  /\ InitInst
  /\ InitReq
  /\ InitLoop
  /\ InitCall

\* A server after load: one route with any path of the model, or a table
\* of pool entries.
InitRoute ==
  /\ InitIdle
  /\ routes \in {<<RouteEntry(GET, p)>> :
                   p \in PathsOf(PatternSegs, MaxSegs) \cup {UsersId}}
                \cup Tables(MaxRoutes)
  /\ srvHandlers = EmptyMap
  /\ request = NoRequest
  /\ matched = NoRoute
  /\ response = NoResponse
  /\ loads = 1
  /\ declared = <<>>

\* _matchRoute(method, urlPath) for a request. It writes nothing a later
\* request reads, so a behaviour holds one request.
MatchRoute(method, urlPath) ==
  /\ request = NoRequest
  /\ request' = [method |-> method, url |-> urlPath]
  /\ matched' = matchRoute(routes, method, urlPath)
  /\ UNCHANGED <<routes, srvHandlers, response, loads, declared>>
  /\ UNCHANGED <<parseVars, regVars, instVars, reqVars, loopVars, callVars>>

NextRoute ==
  \E method \in Methods, urlPath \in PathsOf(UrlSegs, MaxSegs) \cup UsersUrls :
    MatchRoute(method, urlPath)

SpecRoute == InitRoute /\ [][NextRoute]_vars

-----------------------------------------------------------------------------
(* GlossifyServer: load, handle and the request handler of start *)

\* String.prototype.toUpperCase
toUpperCase(s) ==
  [k \in 1..Len(s) |->
     IF \E j \in 1..Len(LowerCase) : LowerCase[j] = s[k]
     THEN UpperCase[CHOOSE j \in 1..Len(LowerCase) : LowerCase[j] = s[k]]
     ELSE s[k]]

\* The offset of the first ' ' of s at or after offset i, or Len(s).
RECURSIVE SpaceFrom(_, _)
SpaceFrom(s, i) ==
  IF i >= Len(s) \/ At(s, i) = " " THEN i ELSE SpaceFrom(s, i + 1)

\* String.prototype.split(' ') of s from offset i on.
RECURSIVE SplitFrom(_, _)
SplitFrom(s, i) ==
  IF SpaceFrom(s, i) >= Len(s) THEN <<substring(s, i, Len(s))>>
  ELSE <<substring(s, i, SpaceFrom(s, i))>> \o SplitFrom(s, SpaceFrom(s, i) + 1)

split(s) == SplitFrom(s, 0)

\* A number, and the NaN parseInt gives for a text without leading digits.
Num(n) == [nan |-> FALSE, n |-> n]
NaN == [nan |-> TRUE, n |-> 0]

IsDigit(c) == \E d \in 1..Len(Digits) : Digits[d] = c

DigitValue(c) == (CHOOSE d \in 1..Len(Digits) : Digits[d] = c) - 1

\* The value of the run of digits of s from offset i on, acc so far.
RECURSIVE DigitsValue(_, _, _)
DigitsValue(s, i, acc) ==
  IF i < Len(s) /\ IsDigit(At(s, i))
  THEN DigitsValue(s, i + 1, acc * 10 + DigitValue(At(s, i)))
  ELSE acc

\* parseInt(s) for texts without a sign or radix prefix.
parseInt(s) ==
  LET i == SpaceRunEnd(s, 0)
  IN  IF i < Len(s) /\ IsDigit(At(s, i)) THEN Num(DigitsValue(s, i, 0)) ELSE NaN

\* JSON.parse, for texts made of numbers, strings without escapes, arrays,
\* objects and null: the offset after the value that starts at offset i,
\* or -1 when there is none.
RECURSIVE JsonValue(_, _)
RECURSIVE JsonMembers(_, _)
RECURSIVE JsonElements(_, _)

\* The offset after the string that starts at offset i, or -1.
RECURSIVE JsonStringEnd(_, _)
JsonStringEnd(s, i) ==
  IF i >= Len(s) THEN -1
  ELSE IF At(s, i) = "\"" THEN i + 1 ELSE JsonStringEnd(s, i + 1)

JsonString(s, i) ==
  IF i < Len(s) /\ At(s, i) = "\"" THEN JsonStringEnd(s, i + 1) ELSE -1

\* name ':' value, then ',' and more members or '}'.
JsonMembers(s, i) ==
  LET k == JsonString(s, SpaceRunEnd(s, i))
      c == IF k < 0 THEN -1 ELSE SpaceRunEnd(s, k)
      v == IF c >= 0 /\ c < Len(s) /\ At(s, c) = ":"
           THEN JsonValue(s, SpaceRunEnd(s, c + 1)) ELSE -1
      e == IF v < 0 THEN -1 ELSE SpaceRunEnd(s, v)
  IN  IF e < 0 \/ e >= Len(s) THEN -1
      ELSE IF At(s, e) = "}" THEN e + 1
           ELSE IF At(s, e) = "," THEN JsonMembers(s, e + 1) ELSE -1

\* value, then ',' and more elements or ']'.
JsonElements(s, i) ==
  LET v == JsonValue(s, SpaceRunEnd(s, i))
      e == IF v < 0 THEN -1 ELSE SpaceRunEnd(s, v)
  IN  IF e < 0 \/ e >= Len(s) THEN -1
      ELSE IF At(s, e) = "]" THEN e + 1
           ELSE IF At(s, e) = "," THEN JsonElements(s, e + 1) ELSE -1

JsonValue(s, i) ==
  IF i >= Len(s) THEN -1
  ELSE CASE At(s, i) = "\"" -> JsonString(s, i)
         [] At(s, i) = "0" -> i + 1
         [] IsDigit(At(s, i)) /\ At(s, i) # "0" ->
              LET RECURSIVE Run(_)
                  Run(j) == IF j < Len(s) /\ IsDigit(At(s, j)) THEN Run(j + 1) ELSE j
              IN  Run(i)
         [] At(s, i) = "{" ->
              LET j == SpaceRunEnd(s, i + 1)
              IN  IF j < Len(s) /\ At(s, j) = "}" THEN j + 1 ELSE JsonMembers(s, i + 1)
         [] At(s, i) = "[" ->
              LET j == SpaceRunEnd(s, i + 1)
              IN  IF j < Len(s) /\ At(s, j) = "]" THEN j + 1 ELSE JsonElements(s, i + 1)
         [] At(s, i) = "n" ->
              IF substring(s, i, i + 4) = <<"n", "u", "l", "l">> THEN i + 4 ELSE -1
         [] OTHER -> -1

\* JSON.parse(s) returns rather than throws.
JsonParses(s) ==
  LET e == JsonValue(s, SpaceRunEnd(s, 0))
  IN  e >= 0 /\ SpaceRunEnd(s, e) = Len(s)

\* The data of a response: a value JSON.parse gave, a raw text, the
\* default message object or the object a custom handler returned.
Data(type, text, params) == [type |-> type, text |-> text, params |-> params]

\* responses.map(r => ({ status: parseInt(r.value), example: r.body }))
Responses(rs) ==
  [k \in 1..Len(rs) |-> [status |-> parseInt(rs[k].value), example |-> rs[k].body]]

\* The entries load pushes for the routes of one controller, from route i
\* on.
RECURSIVE LoadRoutes(_, _, _)
LoadRoutes(controller, routeAnnotations, i) ==
  IF i > Len(routeAnnotations) THEN <<>>
  ELSE LET route == routeAnnotations[i]
           parts == split(route.value)
           method == parts[1]
           routePath == IF Len(parts) >= 2 THEN parts[2] ELSE <<"undefined">>
           descriptions == find(route.body, <<"d", "e", "s", "c", "r", "i", "p", "t", "i", "o", "n">>)
           responses == find(route.body, <<"r", "e", "s", "p", "o", "n", "s", "e">>)
       IN  <<[method |-> toUpperCase(method),
              path |-> routePath,
              controller |-> controller.value,
              description |-> IF Len(descriptions) > 0
                              THEN descriptions[1].body ELSE <<>>,
              responses |-> Responses(responses)]>>
             \o LoadRoutes(controller, routeAnnotations, i + 1)

\* The entries load pushes from controller i on.
RECURSIVE LoadControllers(_, _)
LoadControllers(controllers, i) ==
  IF i > Len(controllers) THEN <<>>
  ELSE LoadRoutes(controllers[i],
                  find(controllers[i].body, <<"r", "o", "u", "t", "e">>), 1)
         \o LoadControllers(controllers, i + 1)

\* load with the first route of each controller left out.
load_skipFirst(rs, s) ==
  LET all == LoadControllers(find(s, <<"c", "o", "n", "t", "r", "o", "l", "l", "e", "r">>), 1)
  IN  rs \o (IF all = <<>> THEN <<>> ELSE Tail(all))

\* GlossifyServer.load(source): this.routes after the call.
load(rs, s) ==
  rs \o LoadControllers(find(s, <<"c", "o", "n", "t", "r", "o", "l", "l", "e", "r">>), 1)

\* GlossifyServer.handle(method, routePath, handler): this.handlers after
\* the call.
handle(hs, method, routePath, handler) ==
  MapSet(hs, toUpperCase(method) \o <<":">> \o routePath, handler)

\* What a handler returned: its status and data properties, either of
\* which may be undefined.
Result(hasStatus, status, hasData, data) ==
  [hasStatus |-> hasStatus, status |-> status, hasData |-> hasData, data |-> data]

defaultHandler_lastResponse(route, params) ==
  IF Len(route.responses) > 0
  THEN LET r == route.responses[Len(route.responses)]
       IN  Result(TRUE, r.status, TRUE,
                  Data(IF JsonParses(r.example) THEN "json" ELSE "text",
                       r.example, EmptyMap))
  ELSE Result(TRUE, Num(200), TRUE,
              Data("message", route.method \o <<" ">> \o route.path, params))

\* GlossifyServer._defaultHandler(route, params)
defaultHandler(route, params) ==
  IF Len(route.responses) > 0
  THEN LET r == route.responses[1]
       IN  Result(TRUE, r.status, TRUE,
                  Data(IF JsonParses(r.example) THEN "json" ELSE "text",
                       r.example, EmptyMap))
  ELSE Result(TRUE, Num(200), TRUE,
              Data("message", route.method \o <<" ">> \o route.path, params))

\* The handlers of the callers: k1 returns { status: 201, data: ... }, k2
\* an object with neither a status nor a data property.
ServerHandlerIds == {"k1", "k2"}

ServerCallback(k, params) ==
  IF k = "k1"
  THEN Result(TRUE, Num(201), TRUE, Data("object", <<"k", "1">>, params))
  ELSE Result(FALSE, NaN, FALSE, Data("object", <<"k", "2">>, params))

\* The then callback of the request handler: status = r?.status || 200 and
\* data = r?.data !== undefined ? r.data : r.
Send(r, by) ==
  [status |-> IF r.hasStatus /\ ~r.status.nan /\ r.status.n # 0
              THEN r.status.n ELSE 200,
   data   |-> r.data,
   by     |-> by]

OPTIONS == <<"O", "P", "T", "I", "O", "N", "S">>

\* The request handler of start for one request: the response sent.
respond(rs, hs, method, urlPath) ==
  IF method = OPTIONS
  THEN [status |-> 204, data |-> Data("none", <<>>, EmptyMap), by |-> "options"]
  ELSE LET m == matchRoute(rs, method, urlPath)
           handler == MapGet(hs, m.route.method \o <<":">> \o m.route.path)
       IN  IF ~m.found
           THEN [status |-> 404,
                 data |-> Data("error", <<>>, EmptyMap), by |-> "notfound"]
           ELSE IF handler # "undefined"
                THEN Send(ServerCallback(handler, m.params), "custom")
                ELSE Send(defaultHandler(m.route, m.params), "default")

\* The route blocks written in the .gsf sources of the model, each with what
\* it declares: method and path as written, and the status, example text
\* and JSON validity of each @response.
\*   @route GET /a { }
\*   @route post /a/:a{@response 201{{"i":1}}}
\*   @route GET /b{@response 404{no}@response 200{}}
\*   @route GET /m{@response 200{"j@x.io"}}
RouteBlocks ==
  {[text |->
      <<"@", "r", "o", "u", "t", "e", " ", "G", "E", "T", " ", "/", "a",
        " ", "{", " ", "}">>,
    method |-> <<"G", "E", "T">>, path |-> <<"/", "a">>,
    responses |->
      <<>>],
   [text |->
      <<"@", "r", "o", "u", "t", "e", " ", "p", "o", "s", "t", " ", "/",
        "a", "/", ":", "a", "{", "@", "r", "e", "s", "p", "o", "n", "s",
        "e", " ", "2", "0", "1", "{", "{", "\"", "i", "\"", ":", "1", "}",
        "}", "}">>,
    method |-> <<"p", "o", "s", "t">>, path |-> <<"/", "a", "/", ":", "a">>,
    responses |->
      <<[status |-> 201, example |-> <<"{", "\"", "i", "\"", ":", "1", "}">>, valid |-> TRUE]>>],
   [text |->
      <<"@", "r", "o", "u", "t", "e", " ", "G", "E", "T", " ", "/", "b",
        "{", "@", "r", "e", "s", "p", "o", "n", "s", "e", " ", "4", "0",
        "4", "{", "n", "o", "}", "@", "r", "e", "s", "p", "o", "n", "s",
        "e", " ", "2", "0", "0", "{", "}", "}">>,
    method |-> <<"G", "E", "T">>, path |-> <<"/", "b">>,
    responses |->
      <<[status |-> 404, example |-> <<"n", "o">>, valid |-> FALSE], [status |-> 200, example |-> <<>>, valid |-> FALSE]>>],
   [text |->
      <<"@", "r", "o", "u", "t", "e", " ", "G", "E", "T", " ", "/", "m",
        "{", "@", "r", "e", "s", "p", "o", "n", "s", "e", " ", "2", "0",
        "0", "{", "\"", "j", "@", "x", ".", "i", "o", "\"", "}", "}">>,
    method |-> <<"G", "E", "T">>, path |-> <<"/", "m">>,
    responses |->
      <<[status |-> 200, example |-> <<"\"", "j", "@", "x", ".", "i", "o", "\"">>, valid |-> TRUE]>>]}

\* Most load calls in one behaviour.
MaxLoads == 1

\* No route block, one, or two.
BlockSeqs ==
  {<<>>} \cup {<<b>> : b \in RouteBlocks}
         \cup {<<b1, b2>> : b1 \in RouteBlocks, b2 \in RouteBlocks}

\* The texts of the blocks bs, one after the other.
RECURSIVE BlockTexts(_)
BlockTexts(bs) ==
  IF bs = <<>> THEN <<>> ELSE Head(bs).text \o BlockTexts(Tail(bs))

\* '@controller Name { ... }' around the blocks bs.
ControllerText(name, bs) ==
  <<"@", "c", "o", "n", "t", "r", "o", "l", "l", "e", "r", " ">> \o name
    \o <<" ", "{">> \o BlockTexts(bs) \o <<"}">>

\* What the blocks bs, written in controller name, declare.
DeclaredIn(name, bs) ==
  [k \in 1..Len(bs) |->
     [controller |-> name, method |-> bs[k].method, path |-> bs[k].path,
      responses |-> bs[k].responses]]

\* A .gsf file: the blocks bs in controller C, or the first of them in C
\* and the others in a second controller D.
Files ==
  {[text |-> ControllerText(<<"C">>, bs), routes |-> DeclaredIn(<<"C">>, bs)] :
     bs \in BlockSeqs}
  \cup
  {[text |-> ControllerText(<<"C">>, <<Head(bs)>>) \o <<" ">>
               \o ControllerText(<<"D">>, Tail(bs)),
    routes |-> DeclaredIn(<<"C">>, <<Head(bs)>>) \o DeclaredIn(<<"D">>, Tail(bs))] :
     bs \in {x \in BlockSeqs : Len(x) >= 2}}

\* '/a', '/a/b', '/b', '/m', '/x'
RequestUrls ==
  {<<"/", "a">>, <<"/", "a", "/", "b">>, <<"/", "b">>, <<"/", "m">>, <<"/", "x">>}

\* The routes callers register handlers for: 'GET /b' and 'post /a/:a'.
HandleKeys ==
  {<<GET, <<"/", "b">> >>, << <<"p", "o", "s", "t">>, <<"/", "a", "/", ":", "a">> >>}

\* A new server and a .gsf file to load.
InitServe ==
  /\ \E f \in Files :
       /\ source = f.text
       /\ declared = f.routes
  /\ pc = "ready"
  /\ lastIndex = 0
  /\ annotations = <<>>
  /\ startIndex = -1
  /\ body = NoBody
  /\ nestedOf = 0
  /\ nested = <<>>
  /\ InitRegistry
  /\ InitInst
  /\ InitReq
  /\ InitLoop
  /\ InitCall
  /\ routes = <<>>
  /\ srvHandlers = EmptyMap
  /\ request = NoRequest
  /\ matched = NoRoute
  /\ response = NoResponse
  /\ loads = 0

\* server.load(source)
Load ==
  /\ loads < MaxLoads
  /\ request = NoRequest
  /\ routes' = load(routes, source)
  /\ loads' = loads + 1
  /\ UNCHANGED <<srvHandlers, request, matched, response, declared>>
  /\ UNCHANGED <<parseVars, regVars, instVars, reqVars, loopVars, callVars>>

\* server.handle(method, routePath, handler)
Handle(method, routePath, k) ==
  /\ request = NoRequest
  /\ srvHandlers' = handle(srvHandlers, method, routePath, k)
  /\ UNCHANGED <<routes, request, matched, response, declared, loads>>
  /\ UNCHANGED <<parseVars, regVars, instVars, reqVars, loopVars, callVars>>

\* One request to the started server, handled to its response. A request
\* writes nothing a later one reads, so a behaviour holds one request.
Request(method, urlPath) ==
  /\ request = NoRequest
  /\ request' = [method |-> method, url |-> urlPath]
  /\ matched' = IF method = OPTIONS THEN NoRoute
                ELSE matchRoute(routes, method, urlPath)
  /\ response' = respond(routes, srvHandlers, method, urlPath)
  /\ phase' = "done"
  /\ written' = written + 1
  /\ UNCHANGED result
  /\ UNCHANGED <<routes, srvHandlers, declared, loads>>
  /\ UNCHANGED <<parseVars, regVars, instVars, loopVars, callVars>>

NextServe ==
  \/ Load
  \/ \E key \in HandleKeys, k \in ServerHandlerIds : Handle(key[1], key[2], k)
  \/ \E method \in Methods \cup {OPTIONS}, urlPath \in RequestUrls :
       Request(method, urlPath)

SpecServe == InitServe /\ [][NextServe]_vars

-----------------------------------------------------------------------------
(* Loading again on the same server *)

\* Most load calls on one server when sources are loaded again.
MaxReloads == 2

\* The .gsf files loaded again: those of one controller.
ReloadFiles ==
  {[text |-> ControllerText(<<"C">>, bs), routes |-> DeclaredIn(<<"C">>, bs)] :
     bs \in BlockSeqs}

\* A new server, nothing loaded.
InitReload == InitIdle /\ InitServer

\* server.load(f.text), whatever was loaded before.
Reload(f) ==
  /\ loads < MaxReloads
  /\ source' = f.text
  /\ declared' = f.routes
  /\ routes' = load(routes, f.text)
  /\ loads' = loads + 1
  /\ UNCHANGED <<pc, lastIndex, annotations, startIndex, body, nestedOf, nested>>
  /\ UNCHANGED <<srvHandlers, request, matched, response>>
  /\ UNCHANGED <<regVars, instVars, reqVars, loopVars, callVars>>

NextReload == \E f \in ReloadFiles : Reload(f)

SpecReload == InitReload /\ [][NextReload]_vars

-----------------------------------------------------------------------------
(* One request through the request handler of start, step by step *)

\* The handlers of the callers, with k3, which throws, and k4, which
\* returns a promise that rejects.
RequestHandlerIds == ServerHandlerIds \cup {"k3", "k4"}

\* What the call handler({ params, body, query, data, route }) does.
HandlerOutcome(k, params) ==
  IF k = "k3" THEN [outcome |-> "thrown", value |-> NoResult.value]
  ELSE IF k = "k4" THEN [outcome |-> "rejected", value |-> NoResult.value]
  ELSE [outcome |-> "returned", value |-> ServerCallback(k, params)]

\* this.handlers.get(`${matched.route.method}:${matched.route.path}`)
HandlerFor(hs, m) == MapGet(hs, m.route.method \o <<":">> \o m.route.path)

\* The .gsf files the started server has loaded: one controller with at
\* most one route.
RequestFiles ==
  {[text |-> ControllerText(<<"C">>, bs), routes |-> DeclaredIn(<<"C">>, bs)] :
     bs \in {x \in BlockSeqs : Len(x) <= 1}}

\* A started server with one .gsf file loaded.
InitRequest ==
  /\ InitIdle
  /\ \E f \in RequestFiles :
       /\ declared = f.routes
       /\ routes = load(<<>>, f.text)
  /\ srvHandlers = EmptyMap
  /\ request = NoRequest
  /\ matched = NoRoute
  /\ response = NoResponse
  /\ loads = 1

\* The callback of http.createServer up to req.on('end', ...): OPTIONS and
\* an unmatched request are answered at once, a matched one waits for the
\* end of its body.
Accept(method, urlPath) ==
  /\ phase = "idle"
  /\ request' = [method |-> method, url |-> urlPath]
  /\ IF method = OPTIONS
     THEN /\ matched' = NoRoute
          /\ response' = [status |-> 204, data |-> Data("none", <<>>, EmptyMap),
                          by |-> "options"]
          /\ written' = written + 1
          /\ phase' = "done"
     ELSE LET m == matchRoute(routes, method, urlPath)
          IN  /\ matched' = m
              /\ IF ~m.found
                 THEN /\ response' = [status |-> 404,
                                      data |-> Data("error", <<>>, EmptyMap),
                                      by |-> "notfound"]
                      /\ written' = written + 1
                      /\ phase' = "done"
                 ELSE /\ phase' = "body"
                      /\ UNCHANGED <<response, written>>
  /\ UNCHANGED <<routes, srvHandlers, declared, loads, result>>
  /\ UNCHANGED <<parseVars, regVars, instVars, loopVars, callVars>>

\* The 'end' listener up to Promise.resolve(result): the handler runs. What
\* it throws leaves the listener, past the promise chain built after it.
BodyEnd ==
  /\ phase = "body"
  /\ LET handler == HandlerFor(srvHandlers, matched)
         r == IF handler # "undefined"
              THEN HandlerOutcome(handler, matched.params)
              ELSE [outcome |-> "returned",
                    value |-> defaultHandler(matched.route, matched.params)]
     IN  /\ result' = r
         /\ phase' = IF r.outcome = "thrown" THEN "thrown"
                     ELSE IF r.outcome = "rejected" THEN "catch"
                     ELSE "then"
  /\ UNCHANGED written
  /\ UNCHANGED serverVars
  /\ UNCHANGED <<parseVars, regVars, instVars, loopVars, callVars>>

\* The then callback: res.writeHead(status) and res.end(...).
Then ==
  /\ phase = "then"
  /\ response' = Send(result.value,
                      IF HandlerFor(srvHandlers, matched) # "undefined"
                      THEN "custom" ELSE "default")
  /\ written' = written + 1
  /\ phase' = "done"
  /\ UNCHANGED result
  /\ UNCHANGED <<routes, srvHandlers, request, matched, loads, declared>>
  /\ UNCHANGED <<parseVars, regVars, instVars, loopVars, callVars>>

\* The catch callback: res.writeHead(500) and res.end(...).
Catch ==
  /\ phase = "catch"
  /\ response' = [status |-> 500, data |-> Data("error", <<>>, EmptyMap),
                  by |-> "catch"]
  /\ written' = written + 1
  /\ phase' = "done"
  /\ UNCHANGED result
  /\ UNCHANGED <<routes, srvHandlers, request, matched, loads, declared>>
  /\ UNCHANGED <<parseVars, regVars, instVars, loopVars, callVars>>

NextRequest ==
  \/ \E key \in HandleKeys, k \in RequestHandlerIds : Handle(key[1], key[2], k)
  \/ \E method \in Methods \cup {OPTIONS}, urlPath \in RequestUrls :
       Accept(method, urlPath)
  \/ BodyEnd
  \/ Then
  \/ Catch

SpecRequest == InitRequest /\ [][NextRequest]_vars

\* The body of an accepted request ends, and the event loop runs every
\* callback that is ready.
SpecRequestFair ==
  SpecRequest /\ WF_vars(BodyEnd) /\ WF_vars(Then) /\ WF_vars(Catch)

-----------------------------------------------------------------------------
(* parse, parseNested, find and has called on one instance, in any order *)

\* parse keeping only the records whose name has a handler.
parse_registered(hs, s) ==
  SelectSeq(parse(s), LAMBDA a : MapGet(hs, a.name) # "undefined")

\* this.parse(source) on the instance whose this.handlers is hs. The regex
\* is made by the call, so every call scans from 0.
parseOn(hs, s) == parse(s)

\* this.parseNested(body)
parseNestedOn(hs, b) == parseOn(hs, b)

\* this.find(source, annotationType)
findOn(hs, s, annotationType) ==
  SelectSeq(parseOn(hs, s), LAMBDA a : a.name = annotationType)

\* this.has(source, annotationType)
hasOn(hs, s, annotationType) == Len(findOn(hs, s, annotationType)) > 0

\* The annotation types asked for: 'a', 'b' and 'c'.
AskedTypes == RegNames \cup {<<"c">>}

\* A new instance; no call was made.
InitPure == InitIdle /\ InitServer

\* What a call that only reads leaves alone.
CallFrame ==
  /\ calls' = <<>>
  /\ context' = "none"
  /\ splices' = <<>>
  /\ UNCHANGED <<handlers, regLog>>
  /\ UNCHANGED <<pc, lastIndex, annotations, startIndex, body, nestedOf, nested>>
  /\ UNCHANGED <<instVars, serverVars, reqVars, loopVars>>

\* glossify.parse(s)
CallParse(s) ==
  /\ pc = "ready"
  /\ source' = s
  /\ lastOp' = "parse"
  /\ returned' = parseOn(handlers, s)
  /\ asked' = <<>>
  /\ CallFrame

\* glossify.parseNested(b)
CallParseNested(b) ==
  /\ pc = "ready"
  /\ source' = b
  /\ lastOp' = "parseNested"
  /\ returned' = parseNestedOn(handlers, b)
  /\ asked' = <<>>
  /\ CallFrame

\* glossify.find(s, annotationType)
CallFind(s, annotationType) ==
  /\ pc = "ready"
  /\ source' = s
  /\ lastOp' = "find"
  /\ returned' = findOn(handlers, s, annotationType)
  /\ asked' = annotationType
  /\ CallFrame

\* glossify.has(s, annotationType)
CallHas(s, annotationType) ==
  /\ pc = "ready"
  /\ source' = s
  /\ lastOp' = "has"
  /\ returned' = hasOn(handlers, s, annotationType)
  /\ asked' = annotationType
  /\ CallFrame

NextPure ==
  \/ \E n \in RegNames, h \in HandlerIds : Register(n, h)
  \/ \E s \in Blocks : CallParse(s)
  \/ \E s \in Blocks : CallParseNested(s)
  \/ \E s \in Blocks, annotationType \in AskedTypes : CallFind(s, annotationType)
  \/ \E s \in Blocks, annotationType \in AskedTypes : CallHas(s, annotationType)

SpecPure == InitPure /\ [][NextPure]_vars

-----------------------------------------------------------------------------
(* APIDocGenerator._parseRouteDetails *)

\* this.glossify.find(routeBody, 'param') and the like: the entries pushed
\* to details.params for the records rs, with location loc.
ParamEntries(rs, loc) ==
  [k \in 1..Len(rs) |->
     [name |-> rs[k].value, description |-> rs[k].body, in |-> loc]]

\* APIDocGenerator._parseRouteDetails(routeBody)
parseRouteDetails(routeBody) ==
  LET descriptions == find(routeBody, <<"d", "e", "s", "c", "r", "i", "p", "t", "i", "o", "n">>)
      params       == find(routeBody, <<"p", "a", "r", "a", "m">>)
      bodies       == find(routeBody, <<"b", "o", "d", "y">>)
      responses    == find(routeBody, <<"r", "e", "s", "p", "o", "n", "s", "e">>)
      queries      == find(routeBody, <<"q", "u", "e", "r", "y">>)
      queryParams  == IF Len(queries) > 0
                      THEN find(queries[1].body, <<"p", "a", "r", "a", "m">>)
                      ELSE <<>>
  IN  [description |-> IF Len(descriptions) > 0 THEN descriptions[1].body ELSE <<>>,
       params      |-> ParamEntries(params, "path") \o ParamEntries(queryParams, "query"),
       body        |-> IF Len(bodies) > 0
                       THEN [null |-> FALSE, text |-> bodies[1].body]
                       ELSE [null |-> TRUE, text |-> <<>>],
       responses   |-> [k \in 1..Len(responses) |->
                          [status |-> responses[k].value,
                           example |-> responses[k].body]]]

\* What is written in the route bodies of the model, each with the
\* parameters it declares and their locations:
\*   @param id{x}
\*   @param n{}
\*   @query{@param q{y}}
\*   @query{@param p{}@param q{y}}
\*   @description{d}
\*   @response 200{1}
\*   @body{b}
\*    x 
DetailPieces ==
  {[text |->
      <<"@", "p", "a", "r", "a", "m", " ", "i", "d", "{", "x", "}">>,
    params |-> <<[name |-> <<"i", "d">>, in |-> "path"]>>],
   [text |->
      <<"@", "p", "a", "r", "a", "m", " ", "n", "{", "}">>,
    params |-> <<[name |-> <<"n">>, in |-> "path"]>>],
   [text |->
      <<"@", "q", "u", "e", "r", "y", "{", "@", "p", "a", "r", "a", "m",
        " ", "q", "{", "y", "}", "}">>,
    params |-> <<[name |-> <<"q">>, in |-> "query"]>>],
   [text |->
      <<"@", "q", "u", "e", "r", "y", "{", "@", "p", "a", "r", "a", "m",
        " ", "p", "{", "}", "@", "p", "a", "r", "a", "m", " ", "q", "{",
        "y", "}", "}">>,
    params |-> <<[name |-> <<"p">>, in |-> "query"], [name |-> <<"q">>, in |-> "query"]>>],
   [text |->
      <<"@", "d", "e", "s", "c", "r", "i", "p", "t", "i", "o", "n", "{",
        "d", "}">>,
    params |-> <<>>],
   [text |->
      <<"@", "r", "e", "s", "p", "o", "n", "s", "e", " ", "2", "0", "0",
        "{", "1", "}">>,
    params |-> <<>>],
   [text |->
      <<"@", "b", "o", "d", "y", "{", "b", "}">>,
    params |-> <<>>],
   [text |->
      <<" ", "x", " ">>,
    params |-> <<>>]}

\* The sequences of at most n pieces.
RECURSIVE PieceSeqs(_)
PieceSeqs(n) ==
  IF n = 0 THEN {<<>>}
  ELSE PieceSeqs(n - 1)
         \cup {Append(ps, x) : ps \in PieceSeqs(n - 1), x \in DetailPieces}

\* The text of the pieces ps, one after the other.
RECURSIVE PiecesText(_)
PiecesText(ps) ==
  IF ps = <<>> THEN <<>> ELSE Head(ps).text \o PiecesText(Tail(ps))

\* The parameters the pieces ps declare, in order.
RECURSIVE PiecesParams(_)
PiecesParams(ps) ==
  IF ps = <<>> THEN <<>> ELSE Head(ps).params \o PiecesParams(Tail(ps))

\* A generator and a route body to document.
InitDocs ==
  /\ source \in {PiecesText(ps) : ps \in PieceSeqs(MaxBlocks)}
  /\ pc = "ready"
  /\ lastIndex = 0
  /\ annotations = <<>>
  /\ startIndex = -1
  /\ body = NoBody
  /\ nestedOf = 0
  /\ nested = <<>>
  /\ InitRegistry
  /\ InitExt

\* this._parseRouteDetails(route.body)
ParseRouteDetails ==
  /\ lastOp = "none"
  /\ lastOp' = "parseRouteDetails"
  /\ returned' = parseRouteDetails(source)
  /\ calls' = <<>>
  /\ context' = "none"
  /\ splices' = <<>>
  /\ UNCHANGED <<handlers, regLog>>
  /\ UNCHANGED parseVars
  /\ UNCHANGED extVars

NextDocs == ParseRouteDetails

SpecDocs == InitDocs /\ [][NextDocs]_vars

-----------------------------------------------------------------------------
(* Brace depth, stated by counting *)

\* Number of offsets k in a..b with s[k] = c.
Count(s, c, a, b) == Cardinality({k \in a..b : At(s, k) = c})

\* Depth after reading s[i..j], the depth just before s[i] being 1.
DepthAfter(s, i, j) == 1 + Count(s, "{", i, j) - Count(s, "}", i, j)

\* The offsets at or after i where the depth is 0.
Closers(s, i) == {j \in i..(Len(s) - 1) : DepthAfter(s, i, j) = 0}

\* Offset of the first "{" at or after p.
OpenBrace(s, p) == Min({q \in p..(Len(s) - 1) : At(s, q) = "{"})

\* The text from offset d to the end.
Suffix(s, d) == substring(s, d, Len(s))

\* The records moved right by d offsets.
Shift(recs, d) ==
  [k \in 1..Len(recs) |->
     [recs[k] EXCEPT !.start = @ + d, !.end = @ + d]]

-----------------------------------------------------------------------------
(* Claims *)

\* C1: _extractBody, called just past a "{", returns as endIndex the first
\* offset at which the depth (1 at the start, +1 per "{", -1 per "}") is 0
\* and as content the trimmed text before it, nested braces included; it
\* returns null when the depth never reaches 0.
C1_DepthMatched ==
  startIndex >= 0 =>
    IF Closers(source, startIndex) = {}
    THEN body = NoBody
    ELSE LET j == Min(Closers(source, startIndex))
         IN  /\ body.ok
             /\ body.endIndex = j
             /\ body.content = trim(substring(source, startIndex, j))

\* A call that passed a nested "}" before it found its closing brace.
C1_Witness ==
  /\ pc = "extract"
  /\ body.ok
  /\ \E k \in startIndex..(body.endIndex - 1) : At(source, k) = "}"

\* C2: the records of one parse call have pairwise disjoint [start, end)
\* spans; a block nested in a record's body is not returned by that call.
C2_NoOverlap ==
  \A i, j \in 1..Len(annotations) :
    i < j => annotations[i].end <= annotations[j].start

\* C3: every record has 0 <= start < end <= len(source), raw equal to
\* source.slice(start, end), an "@" at start and at end - 1 the "}" that
\* closes, by depth, the first "{" after start.
C3_RecordSpan ==
  \A i \in 1..Len(annotations) :
    LET r == annotations[i]
    IN  /\ 0 <= r.start
        /\ r.start < r.end
        /\ r.end <= Len(source)
        /\ r.raw = substring(source, r.start, r.end)
        /\ At(source, r.start) = "@"
        /\ At(source, r.end - 1) = "}"
        /\ Closers(source, OpenBrace(source, r.start) + 1) # {}
        /\ r.end - 1 = Min(Closers(source, OpenBrace(source, r.start) + 1))

\* A returned record whose body holds a nested pair of braces.
C3_Witness ==
  /\ pc = "done"
  /\ \E i \in 1..Len(annotations) :
       \E k \in annotations[i].start..(annotations[i].end - 2) :
         At(source, k) = "}"

\* Offset p starts an annotation: "@", a word, a value without "{", "{",
\* a body with balanced braces and its "}".
IsOccurrence(s, p) ==
  /\ At(s, p) = "@"
  /\ WordRunEnd(s, p + 1) > p + 1
  /\ \E q \in (p + 2)..(Len(s) - 1) : At(s, q) = "{"
  /\ Closers(s, OpenBrace(s, p) + 1) # {}

\* Offset p lies outside every pair of braces.
TopLevel(s, p) ==
  /\ \A k \in 0..(p - 1) : Count(s, "{", 0, k) >= Count(s, "}", 0, k)
  /\ Count(s, "{", 0, p - 1) = Count(s, "}", 0, p - 1)

\* C4: for every top-level annotation of the source, parse returns a record
\* that starts at its "@" and carries its name, whatever text precedes it.
C4_EveryHeadLocated ==
  pc = "done" =>
    \A p \in 0..(Len(source) - 1) :
      IsOccurrence(source, p) /\ TopLevel(source, p) =>
        \E i \in 1..Len(annotations) :
          /\ annotations[i].start = p
          /\ annotations[i].name = substring(source, p + 1, WordRunEnd(source, p + 1))

\* C5: a head whose body is never closed yields no record and no failure:
\* every record has its closing "}" in the source, a head whose depth never
\* returns to 0 leaves no record and the scan in a regular position just
\* past its "{", and '@foo { bar' yields the empty list.
C5_UnclosedDropped ==
  /\ \A i \in 1..Len(annotations) :
       LET r == annotations[i]
       IN  /\ r.end <= Len(source)
           /\ At(source, r.end - 1) = "}"
           /\ DepthAfter(source, OpenBrace(source, r.start) + 1, r.end - 1) = 0
  /\ (startIndex >= 0 /\ Closers(source, startIndex) = {}) =>
       /\ ~body.ok
       /\ \A i \in 1..Len(annotations) :
            OpenBrace(source, annotations[i].start) + 1 # startIndex
  /\ (startIndex >= 0 /\ ~body.ok) =>
       /\ pc \in {"parse", "done"}
       /\ lastIndex = startIndex
       /\ lastIndex <= Len(source)
  /\ (pc = "done" /\ source = SrcUnclosed) => annotations = <<>>

\* '@foo { bar' scanned to the end: its one head was tried and dropped.
C5_Witness ==
  /\ pc = "done"
  /\ source = SrcUnclosed
  /\ startIndex = 6
  /\ ~body.ok

\* The last loop iteration dropped its head.
JustDiscarded ==
  /\ pc = "parse"
  /\ startIndex = lastIndex
  /\ startIndex > 0
  /\ ~body.ok

C7_SourceOrder ==
  /\ \A i, j \in 1..Len(annotations) :
       i < j =>
         /\ annotations[i].start < annotations[j].start
         /\ OpenBrace(source, annotations[i].start)
              < OpenBrace(source, annotations[j].start)
  /\ (pc = "done" /\ source = SrcOrder) =>
       /\ Len(annotations) = 2
       /\ annotations[1].name = <<"a">>
       /\ annotations[1].value = <<"1">>
       /\ annotations[1].body = <<"x">>
       /\ annotations[2].name = <<"b">>
       /\ annotations[2].value = <<"2">>
       /\ annotations[2].body = <<"y">>

\* The order example parsed to the end.
C7_Witness ==
  /\ pc = "done"
  /\ source = SrcOrder
  /\ Len(annotations) = 2

\* Offset in the source of the first character of the record's body text.
BodyOffset(s, r) ==
  Min({k \in (OpenBrace(s, r.start) + 1)..(r.end - 1) : ~IsSpace(At(s, k))})

\* Record n lies inside the body of record a.
Inside(s, n, a) ==
  /\ OpenBrace(s, a.start) < n.start
  /\ n.end < a.end

\* C8: a block inside the body of a record A is in A.body verbatim, and
\* parseNested(A.body) returns a record for it whose offsets are relative
\* to the body string: raw == A.body.slice(start, end).
C8_NestingRoundTrip ==
  nestedOf # 0 =>
    LET A == annotations[nestedOf]
        d == BodyOffset(source, A)
    IN  /\ \A j \in 1..Len(annotations) :
             LET N == annotations[j]
             IN  Inside(source, N, A) =>
                   /\ N.end - d <= Len(A.body)
                   /\ substring(A.body, N.start - d, N.end - d) = N.raw
                   /\ \E k \in 1..Len(nested) :
                        /\ nested[k].name = N.name
                        /\ nested[k].value = N.value
                        /\ nested[k].body = N.body
                        /\ nested[k].raw = N.raw
                        /\ nested[k].start = N.start - d
                        /\ nested[k].end = N.end - d
        /\ \A k \in 1..Len(nested) :
             /\ nested[k].end <= Len(A.body)
             /\ nested[k].raw = substring(A.body, nested[k].start, nested[k].end)
             /\ nested[k].raw = substring(source, nested[k].start + d, nested[k].end + d)

\* parseNested returned the block nested in the record it was given.
C8_Witness ==
  /\ nestedOf # 0
  /\ Len(nested) >= 1
  /\ \E j \in 1..Len(annotations) :
       Inside(source, annotations[j], annotations[nestedOf])
  /\ BodyOffset(source, annotations[nestedOf])
       > OpenBrace(source, annotations[nestedOf].start) + 1

\* The callback that the register calls of a log leave for a name: the
\* one of the last call for that name, none if there is no such call.
LastRegistered(log, n) ==
  LET ks == {k \in 1..Len(log) : log[k][1] = n}
  IN  IF ks = {} THEN "undefined" ELSE log[Max(ks)][2]

\* The k-th smallest element of a set of numbers.
Kth(S, k) == CHOOSE i \in S : Cardinality({j \in S : j < i}) = k - 1

\* C9: execute returns one entry per record of parse(source) whose name has
\* a callback, in record order, made of the record's name and value and of
\* what callback(value, body, context) returns; other records give no entry.
C9_ExecuteEntries ==
  lastOp = "execute" =>
    LET recs == parse(source)
        R    == {i \in 1..Len(recs) :
                   LastRegistered(regLog, recs[i].name) # "undefined"}
    IN  /\ Len(returned) = Cardinality(R)
        /\ \A k \in 1..Len(returned) :
             LET rec == recs[Kth(R, k)]
             IN  /\ returned[k].annotation = rec.name
                 /\ returned[k].value = rec.value
                 /\ returned[k].result =
                      Callback(LastRegistered(regLog, rec.name),
                               rec.value, rec.body, context)

\* An execute that ran two callbacks and skipped a record without one.
C9_Witness ==
  /\ lastOp = "execute"
  /\ Len(returned) >= 2
  /\ returned[1].annotation # returned[2].annotation
  /\ Len(parse(source)) > Len(returned)

\* C10: the registry holds for each name the callback of the most recent
\* register call for it and nothing for a name never registered, and an
\* execute or transform invokes, for each record, exactly that callback.
C10_LastWriteWins ==
  /\ \A n \in RegNames \cup {<<"c">>} :
       MapGet(handlers, n) = LastRegistered(regLog, n)
  /\ DOMAIN handlers = {regLog[k][1] : k \in 1..Len(regLog)}
  /\ \A k \in 1..Len(calls) :
       /\ calls[k].handler # "undefined"
       /\ calls[k].handler = LastRegistered(regLog, calls[k].name)
       /\ lastOp = "execute" => returned[k].result.by = calls[k].handler

\* A transform that ran the second of two callbacks registered for a name.
C10_Witness ==
  /\ lastOp = "transform"
  /\ Len(regLog) >= 2
  /\ regLog[1][1] = regLog[2][1]
  /\ regLog[1][2] # regLog[2][2]
  /\ Len(calls) >= 1
  /\ calls[1].name = regLog[2][1]
  /\ calls[1].handler = LastRegistered(regLog, calls[1].name)
  /\ calls[1].handler # regLog[1][2]

\* The register calls made on the receiver of the last call.
LogOfLast == IF lastInst = "B" THEN regLogB ELSE regLog

\* C11: each instance's registry holds what was registered on that instance
\* and nothing else, execute and transform on an instance invoke only the
\* callbacks registered on it, and the instance that the module-level parse
\* and find make has an empty registry and runs no callback.
C11_PerInstance ==
  /\ \A n \in RegNames \cup {<<"c">>} :
       /\ MapGet(handlers, n) = LastRegistered(regLog, n)
       /\ MapGet(handlersB, n) = LastRegistered(regLogB, n)
  /\ (lastInst \in {"A", "B"} /\ lastOp \in {"execute", "transform"}) =>
       \A k \in 1..Len(calls) :
         /\ calls[k].handler # "undefined"
         /\ calls[k].handler = LastRegistered(LogOfLast, calls[k].name)
  /\ lastInst = "module" =>
       /\ fresh = EmptyMap
       /\ calls = <<>>
       /\ lastOp = "parse" => returned = parse(source)

\* An execute on A ran A's callback for a name for which B holds another.
C11_Witness ==
  /\ lastInst = "A"
  /\ lastOp = "execute"
  /\ Len(calls) >= 1
  /\ LastRegistered(regLogB, calls[1].name) # "undefined"
  /\ LastRegistered(regLogB, calls[1].name) # calls[1].handler

\* The records of parse(s) whose callback in registry h returns a string:
\* the span and the replacement of each.
StringRecords(h, s, ctx) ==
  LET anns == parse(s)
  IN  {[start |-> anns[k].start, end |-> anns[k].end,
        text  |-> Callback(MapGet(h, anns[k].name), anns[k].value,
                           anns[k].body, ctx).text] :
         k \in {j \in 1..Len(anns) :
                  /\ MapGet(h, anns[j].name) # "undefined"
                  /\ Callback(MapGet(h, anns[j].name), anns[j].value,
                              anns[j].body, ctx).type = "string"}}

\* No two spans of R share an offset.
Disjoint(R) ==
  \A r1, r2 \in R : r1 = r2 \/ r1.end <= r2.start \/ r2.end <= r1.start

\* s from offset i on, with each span of R replaced by its text.
RECURSIVE Replaced(_, _, _)
Replaced(s, R, i) ==
  IF i >= Len(s) THEN <<>>
  ELSE IF \E r \in R : r.start = i
       THEN LET r == CHOOSE r \in R : r.start = i
            IN  r.text \o Replaced(s, R, r.end)
       ELSE <<At(s, i)>> \o Replaced(s, R, i + 1)

\* C12: when no callback that transform invokes returns a string (or none
\* is registered for any record), transform returns the source unchanged.
C12_Identity ==
  (lastOp = "transform" /\ StringRecords(handlers, source, context) = {}) =>
    /\ returned = source
    /\ splices = <<>>

\* A transform ran an object-returning callback on a record.
C12_Witness ==
  /\ lastOp = "transform"
  /\ StringRecords(handlers, source, context) = {}
  /\ Len(calls) >= 1
  /\ Len(source) > 0

\* C13: when the records with a string-returning callback are pairwise
\* disjoint, transform returns the source with exactly each such span
\* replaced by its callback's text, the text before, between and after the
\* spans kept; when one such record is the whole source the result is its
\* replacement.
C13_DisjointSplices ==
  LET R == StringRecords(handlers, source, context)
  IN  (lastOp = "transform" /\ Disjoint(R)) =>
        /\ returned = Replaced(source, R, 0)
        /\ \A r \in R : (r.start = 0 /\ r.end = Len(source)) => returned = r.text

\* Two disjoint records were replaced, one by a text as long as its span
\* and one by a longer text, with source text left around them.
C13_Witness ==
  LET R == StringRecords(handlers, source, context)
  IN  /\ lastOp = "transform"
      /\ Disjoint(R)
      /\ \E r1, r2 \in R :
           /\ r1.end <= r2.start
           /\ Len(r1.text) = r1.end - r1.start
           /\ Len(r2.text) > r2.end - r2.start
           /\ r2.end < Len(source)

\* Offset i of the source lies in a span of R.
InSpan(R, i) == \E r \in R : r.start <= i /\ i < r.end

\* The first offset from i on that lies in no span of R.
RECURSIVE RegionEnd(_, _, _)
RegionEnd(R, n, i) ==
  IF i >= n \/ ~InSpan(R, i) THEN i ELSE RegionEnd(R, n, i + 1)

\* o is s from offset i on with every maximal run of replaced offsets
\* turned into some text and every other character kept, once and in order.
RECURSIVE WellFormed(_, _, _, _)
WellFormed(o, s, R, i) ==
  IF i >= Len(s) THEN o = <<>>
  ELSE IF ~InSpan(R, i)
       THEN /\ o # <<>>
            /\ Head(o) = At(s, i)
            /\ WellFormed(Tail(o), s, R, i + 1)
       ELSE \E k \in 0..Len(o) :
              WellFormed(SubSeq(o, k + 1, Len(o)), s, R,
                         RegionEnd(R, Len(s), i))

\* C14: for every source and registry, nested string-returning records
\* included, every source character outside the replaced spans appears in
\* the result of transform exactly once and in the original order.
C14_WellFormed ==
  lastOp = "transform" =>
    WellFormed(returned, source, StringRecords(handlers, source, context), 0)

\* The sum of repl - span over the first k splices.
RECURSIVE OffsetSum(_, _)
OffsetSum(sp, k) ==
  IF k = 0 THEN 0 ELSE OffsetSum(sp, k - 1) + sp[k].repl - sp[k].span

\* C20: after each splice the text is len(source) + offset long, offset is
\* the sum of len(replacement) - (end - start) over the splices made, and
\* each splice cuts the current text at indices within 0..len(text).
C20_RunningOffset ==
  lastOp = "transform" =>
    /\ \A k \in 1..Len(splices) :
         /\ splices[k].offset = OffsetSum(splices, k)
         /\ splices[k].after = Len(source) + splices[k].offset
         /\ 0 <= splices[k].start
         /\ splices[k].start <= splices[k].end
         /\ splices[k].end <= splices[k].before
    /\ Len(returned) = Len(source) + OffsetSum(splices, Len(splices))

\* The segments of path: the texts between its '/' characters.
RECURSIVE Segments(_, _)
Segments(path, i) ==
  IF SegEnd(path, i) >= Len(path) THEN <<substring(path, i, Len(path))>>
  ELSE <<substring(path, i, SegEnd(path, i))>>
         \o Segments(path, SegEnd(path, i) + 1)

\* seg is ':name'.
IsCapture(seg) ==
  /\ Len(seg) >= 2
  /\ seg[1] = ":"
  /\ \A k \in 2..Len(seg) : seg[k] # ":"

\* seg is written with letters and digits only.
IsPlain(seg) == \A k \in 1..Len(seg) : seg[k] \notin {":", "."}

\* Segment by segment: as many segments, every ':name' facing a segment
\* that is not empty, every other segment facing an equal one.
SegmentsMatch(path, urlPath) ==
  LET P == Segments(path, 0)
      U == Segments(urlPath, 0)
  IN  /\ Len(P) = Len(U)
      /\ \A k \in 1..Len(P) :
           IF IsCapture(P[k]) THEN U[k] # <<>> ELSE P[k] = U[k]

\* params holds, for each ':name' of path, the facing segment of urlPath
\* (of the last ':name' when a name is written twice), and nothing else.
ParamsPositional(params, path, urlPath) ==
  LET P == Segments(path, 0)
      U == Segments(urlPath, 0)
      C == {k \in 1..Len(P) : IsCapture(P[k])}
  IN  /\ DOMAIN params = {Tail(P[k]) : k \in C}
      /\ \A k \in C :
           (\A j \in C : j > k => P[j] # P[k]) => params[Tail(P[k])] = U[k]

\* The last request was matched against a table of one entry of its method.
OneRouteAsked ==
  /\ request # NoRequest
  /\ Len(routes) = 1
  /\ routes[1].method = request.method

\* C15: a pattern of plain literal and ':name' segments matches a path
\* exactly when both have as many segments, each literal segment is equal
\* and each ':name' faces a non-empty segment, and params then maps each
\* name to the facing segment; '/users/:id' matches '/users/42' with
\* id = '42' and matches neither '/users/42/extra' nor '/users'.
C15_SegmentMatch ==
  (OneRouteAsked
     /\ \A k \in 1..Len(Segments(routes[1].path, 0)) :
          LET seg == Segments(routes[1].path, 0)[k]
          IN  IsCapture(seg) \/ IsPlain(seg)) =>
    /\ matched.found <=> SegmentsMatch(routes[1].path, request.url)
    /\ matched.found =>
         /\ matched.route = routes[1]
         /\ ParamsPositional(matched.params, routes[1].path, request.url)
    /\ routes[1].path = UsersId =>
         /\ matched.found <=> request.url = <<"/", "u", "s", "e", "r", "s", "/", "4", "2">>
         /\ matched.found => matched.params = (<<"i", "d">> :> <<"4", "2">>)

\* '/users/:id' matched '/users/42'.
C15_Witness ==
  /\ OneRouteAsked
  /\ routes[1].path = UsersId
  /\ matched.found
  /\ matched.params = (<<"i", "d">> :> <<"4", "2">>)

\* C16: only a segment that is exactly ':name' captures; every other
\* character of a pattern, '.' and a ':' inside a segment included, matches
\* itself only, so a pattern without a ':name' segment matches one path,
\* itself.
C16_LiteralOtherwise ==
  OneRouteAsked =>
    /\ matched.found <=> SegmentsMatch(routes[1].path, request.url)
    /\ (\A k \in 1..Len(Segments(routes[1].path, 0)) :
          ~IsCapture(Segments(routes[1].path, 0)[k])) =>
         (matched.found <=> request.url = routes[1].path)

\* The entries of rs that the request qualifies for: equal method and a
\* pattern matching the path.
Qualifying(rs, req) ==
  {i \in 1..Len(rs) :
     rs[i].method = req.method /\ MatchPath(rs[i].path, req.url).ok}

\* C17: _matchRoute returns the earliest entry in load order with the
\* request's method and a pattern matching the path, with the params of
\* that entry's pattern; it never returns an entry of another method, and
\* it returns null exactly when no entry qualifies.
C17_FirstMatchWins ==
  request # NoRequest =>
    LET Q == Qualifying(routes, request)
    IN  /\ matched.found <=> Q # {}
        /\ ~matched.found => matched = NoRoute
        /\ matched.found =>
             /\ matched.index \in Q
             /\ \A i \in Q : matched.index <= i
             /\ matched.route = routes[matched.index]
             /\ matched.route.method = request.method
             /\ matched.params =
                  MatchPath(routes[matched.index].path, request.url).params

\* The second entry was returned although a later one qualifies too and
\* an earlier one of another method matches the path.
C17_Witness ==
  /\ request # NoRequest
  /\ matched.found
  /\ matched.index = 2
  /\ routes[1].method # request.method
  /\ MatchPath(routes[1].path, request.url).ok

\* The entries the routes written in a file should give: method in upper
\* case, path as written, controller by name.
Expected(ds) ==
  [k \in 1..Len(ds) |->
     [method |-> toUpperCase(ds[k].method), path |-> ds[k].path,
      controller |-> ds[k].controller]]

\* C18: load registers exactly one entry for every '@route METHOD /path'
\* block written inside a '@controller Name' block, in source order, with
\* the method in upper case, the path as written and controller = Name,
\* also when response bodies hold nested braces or '@' inside strings.
C18_LoadRegistersAll ==
  loads = 1 =>
    [k \in 1..Len(routes) |->
       [method |-> routes[k].method, path |-> routes[k].path,
        controller |-> routes[k].controller]] = Expected(declared)

\* The routes written in the file with the method and path of entry r.
DeclaredFor(r) ==
  {k \in 1..Len(declared) :
     toUpperCase(declared[k].method) = r.method /\ declared[k].path = r.path}

\* C19: when the matched route has no handler under 'METHOD:pattern' the
\* response is built from the first @response written in the route, its
\* status and its example, JSON-parsed when valid JSON and raw otherwise,
\* and has status 200 when the route declares none; when a handler is
\* registered under that key the default handler is not used.
C19_MockMode ==
  (request # NoRequest /\ matched.found) =>
    LET key == matched.route.method \o <<":">> \o matched.route.path
    IN  /\ key \notin DOMAIN srvHandlers =>
             /\ response.by = "default"
             /\ \A k \in DeclaredFor(matched.route) :
                  IF declared[k].responses = <<>>
                  THEN /\ response.status = 200
                       /\ response.data.type = "message"
                  ELSE /\ response.status = declared[k].responses[1].status
                       /\ response.data.text = declared[k].responses[1].example
                       /\ response.data.type =
                            IF declared[k].responses[1].valid THEN "json" ELSE "text"
        /\ key \in DOMAIN srvHandlers =>
             /\ response.by = "custom"
             /\ response.data.type = "object"
             /\ response.data.text =
                  IF srvHandlers[key] = "k1" THEN <<"k", "1">> ELSE <<"k", "2">>

\* A route with two @response blocks and no handler answered with the
\* first, as raw text, while another route has a handler.
C19_Witness ==
  /\ request # NoRequest
  /\ matched.found
  /\ matched.route.path = <<"/", "b">>
  /\ response.by = "default"
  /\ response.status = 404
  /\ response.data.type = "text"
  /\ DOMAIN srvHandlers # {}

\* C21: transform invokes the callbacks execute invokes for the same
\* source, registry and context: the same ones, as many times, in the same
\* order and with the same (value, body, context); the arguments are those
\* of the records of the original source, never text made by a splice.
C21_SameTraversal ==
  lastOp = "transform" =>
    LET recs == parse(source)
        R    == {i \in 1..Len(recs) : MapGet(handlers, recs[i].name) # "undefined"}
    IN  /\ calls = execute(handlers, source, context).calls
        /\ Len(calls) = Cardinality(R)
        /\ \A k \in 1..Len(calls) :
             /\ calls[k].name = recs[Kth(R, k)].name
             /\ calls[k].handler = MapGet(handlers, recs[Kth(R, k)].name)
             /\ calls[k].value = recs[Kth(R, k)].value
             /\ calls[k].body = recs[Kth(R, k)].body
             /\ calls[k].context = context

\* A transform spliced a text of another length for its first record and
\* then invoked the callback of a record nested in that span.
C21_Witness ==
  /\ lastOp = "transform"
  /\ Len(calls) >= 2
  /\ Len(splices) >= 1
  /\ splices[1].repl # splices[1].span
  /\ splices[1].start = parse(source)[1].start
  /\ MapGet(handlers, parse(source)[1].name) # "undefined"
  /\ parse(source)[2].start < parse(source)[1].end

\* The pieces the route body s is written with.
PiecesOf(s) == CHOOSE ps \in PieceSeqs(MaxBlocks) : PiecesText(ps) = s

\* The number of entries of ps with name n and location loc.
ParamCount(ps, n, loc) ==
  Cardinality({k \in 1..Len(ps) : ps[k].name = n /\ ps[k].in = loc})

\* C22: each parameter declared in a route is listed exactly once, with
\* in = 'path' when its '@param' is written directly in the route body and
\* with in = 'query' (and not also 'path') when it is written inside the
\* route's '@query' container.
C22_ParamsOnce ==
  LET ps == PiecesOf(source)
      stated == PiecesParams(ps)
      containers == {k \in 1..Len(ps) : \E j \in 1..Len(ps[k].params) :
                                          ps[k].params[j].in = "query"}
  IN  (lastOp = "parseRouteDetails" /\ Cardinality(containers) <= 1) =>
        \A n \in {stated[k].name : k \in 1..Len(stated)}
                   \cup {returned.params[k].name : k \in 1..Len(returned.params)},
           loc \in {"path", "query"} :
          ParamCount(returned.params, n, loc) = ParamCount(stated, n, loc)

\* C23: reloading is a full swap of the route table: after any loads on
\* one server the table holds exactly the routes of the source loaded last,
\* none of an earlier source and none twice, so loading a source twice
\* leaves what loading it once leaves.
C23_FullSwap ==
  loads >= 1 => routes = load(<<>>, source)

\* The status the request is to be answered with: 204 for OPTIONS, 404
\* when no route matches, 500 when the custom handler throws or rejects,
\* and otherwise the status the handler returned, 200 when it gave none.
StatusDue ==
  IF request.method = OPTIONS THEN 204
  ELSE IF ~matchRoute(routes, request.method, request.url).found THEN 404
  ELSE LET m == matchRoute(routes, request.method, request.url)
           handler == HandlerFor(srvHandlers, m)
           r == IF handler = "undefined" THEN defaultHandler(m.route, m.params)
                ELSE ServerCallback(handler, m.params)
       IN  IF handler \in {"k3", "k4"} THEN 500
           ELSE IF r.hasStatus /\ ~r.status.nan /\ r.status.n # 0
                THEN r.status.n ELSE 200

\* C24: every accepted request eventually receives exactly one response,
\* with the status due: 204 for OPTIONS, 404 when unmatched, the handler's
\* status (200 when none) once the body has ended, and 500 when the custom
\* handler throws or returns a rejected promise; never a second response.
C24_OneResponse ==
  /\ [](written <= 1)
  /\ (phase # "idle") ~>
       (phase = "done" /\ written = 1 /\ response.status = StatusDue)

\* What a step of the two loops does to the scan position and to the
\* extraction index: a head match is at least three characters long and
\* moves the scan position forward; an extraction step moves the index by
\* one, inside the source; the extraction stops at depth 0 or at the end of
\* the source.
StepAdvances ==
  /\ (pc = "parse" /\ pc' = "extract") =>
       /\ lastIndex' - head'.index >= 3
       /\ head'.index >= lastIndex
       /\ lastIndex' > lastIndex
       /\ lastIndex' <= Len(source)
  /\ (pc = "extract" /\ pc' = "extract") =>
       /\ index' = index + 1
       /\ index' <= Len(source)
  /\ (pc = "extract" /\ pc' = "parse") =>
       /\ depth = 0 \/ index = Len(source)
       /\ body'.ok <=> depth = 0

\* C25: parse terminates on every source: every head head consumes at
\* least three characters and the scan position strictly increases, every
\* extraction step advances its index by one and the extraction stops at
\* depth 0 or at the end of the input, so the call returns.
C25_Terminates ==
  /\ <>(pc = "done")
  /\ [][StepAdvances]_vars

\* parse returned after a head whose extraction ran over several
\* characters to the end of the input, braces still open.
C25_Witness ==
  /\ pc = "done"
  /\ head.found
  /\ body = NoBody
  /\ depth > 0
  /\ index = Len(source)
  /\ index - startIndex >= 2

\* What the read-only call op returns for source s and annotation type
\* ty, from the text alone.
PureResult(op, s, ty) ==
  IF op = "has" THEN \E i \in 1..Len(parse(s)) : parse(s)[i].name = ty
  ELSE IF op = "find" THEN SelectSeq(parse(s), LAMBDA a : a.name = ty)
  ELSE parse(s)

=============================================================================
